---- MODULE Spec2Model ----
(***************************************************************************)
(* docker-stats-service: the stream manager and container watcher, the     *)
(* metrics batcher with the retrying InfluxDB client, and the graceful     *)
(* shutdown manager, as state machines.  Each component is created with    *)
(* its collaborators as callbacks (onStats/onStreamEnd, the influx client, *)
(* the shutdown handlers), so each has a specification of its own in which *)
(* the collaborator is the environment.                                    *)
(***************************************************************************)
EXTENDS Integers, Sequences, FiniteSets, TLC

(***************************************************************************)
(* Bounds of the model.                                                    *)
(***************************************************************************)
MaxHandles == 2
MaxChunkLen == 3
MaxLineSize == 1
MaxBufferSize == 2

MaxFragments == 2
MaxPolicyRetries == 11
MaxSize == 2
MaxWaitMs == 1
MaxPoints == 3
MaxAddLen == 1
MaxTimeout == 2
MaxEvents == 4
MaxOutagePoints == 4

MAX_CONSECUTIVE_ERRORS == 3
\* DEFAULT_BATCH_OPTIONS.maxRetries, which the metrics handler does not override
BatchMaxRetries == 3

Containers == {"c1", "c2"}
Handles == 1..MaxHandles
NoHandle == 0

NL == "\n"
SP == " "
\* "g" alone on a line is a well-formed stats record; every other line is not.
StreamChars == {"g", "b", NL}

VARIABLES
  streams,                  \* stream-manager.mjs:20   containerId -> StreamInfo (by handle)
  info,                     \* the StreamInfo objects, one per registered handle
  handle,                   \* the stats streams the Docker API returned
  microtasks,               \* pending onStats(...).then/.catch reactions
  containerWatcherShutdown, \* validation.mjs:754
  pendingStats,             \* watchContainer calls awaiting container.stats()
  pendingInspect,           \* checkContainerStatus calls awaiting container.inspect()
  nextHandle,
  lateEvents,               \* whether a destroyed stream may still emit events
  cleanup,                  \* history: destroy / delete / onStreamEnd per handle
  trans,                    \* history: the state transitions performed
  failRun,                  \* history: per container, the unparsable lines in a row
  lastFired,                \* history: failRun at the last error-threshold teardown
  anyRejected,              \* history: some onStats promise was rejected
  ret,                      \* what the last call of removeStream returned
  limits,                   \* config.mjs:146     config.docker.stats
  sent,                     \* how much of the tape Docker has delivered
  unread                    \* history: lines left unread by the last threshold teardown

streamVars == <<streams, info, handle, microtasks, containerWatcherShutdown,
                pendingStats, pendingInspect, nextHandle, lateEvents, cleanup,
                trans, failRun, lastFired, anyRejected, ret, limits,
                sent, unread>>

VARIABLES
  influxClientShutdown,     \* influx.mjs:130
  options,                  \* influx.mjs:129     the retry options of the client
  rpc,                      \* where the current client call is
  attempt,                  \* part_008:117       retryWithBackoff's loop variable
  lastError,                \* part_008:115
  delay,                    \* part_008:127       the backoff being slept
  invocations,              \* history: calls of the underlying operation
  sleeps,                   \* history: backoff sleeps of the current call
  uniform                   \* history: the kind all errors of the call share

retryVars == <<options, rpc, attempt, lastError, delay, invocations, sleeps, uniform>>

VARIABLES
  batch,                    \* batch.mjs:61
  flushTimeout,             \* batch.mjs:63       time left on the flush timer
  sinceFlush,               \* batch.mjs:62       Date.now() - lastFlushTime
  isShutdown,               \* batch.mjs:64
  flights,                  \* the flush() calls awaiting writeBatch
  mhPc,                     \* handler.mjs:95     where the handler's shutdown() is
  written,                  \* the points the sink has stored
  nextPoint,                \* the next point handleStats will produce
  sinkFailed,               \* history: the sink rejected a write
  lastOutcome,              \* history: how the last finished flush ended
  liveTimers,               \* history: timers created and neither fired nor cleared
  timerFired,               \* history: a flush timer has fired
  queued                    \* history: the points add pushed, in that order

batchVars == <<batch, flushTimeout, sinceFlush, isShutdown, flights, mhPc, written,
               nextPoint, sinkFailed, lastOutcome, liveTimers, timerFired,
               queued>>

VARIABLES
  handlers,                 \* part_006:46        the registered handler names
  isShuttingDown,           \* part_006:47
  timeout,                  \* part_006:48
  hs,                       \* where each handler's executeHandler is
  timers,                   \* the handlers whose timeout timer is pending
  armed,                    \* the delay those timers were created with
  elapsed,                  \* time since the shutdown sequence began
  exited,                   \* process.exit(0) was called
  started,                  \* history: how often each handler was called
  runs,                     \* history: shutdown sequences begun
  ignored,                  \* history: a trigger found a shutdown in progress
  refused,                  \* history: the names register() turned away
  \* createDockerEventsManager (part_010)
  eventsStream,             \* part_010:769
  pendingInfo,              \* start events awaiting getContainerInfo
  stopCalls,                \* how often callbacks.onContainerStop was called, per id
  stopEvents,               \* history: well-formed stop/die/kill events delivered, per id
  eventsSeen,               \* history: payloads delivered to the data listener
  lifecycle,                \* history: the start and stop events delivered, per id, in order
  startup,                  \* main's position in its startup and the containers it still
                            \* has to watch; the daemon's running containers and the start
                            \* events on their way to the subscriber
  skipped,                  \* history: a malformed payload was skipped
  startFailed,              \* history: a start event's inspection or callback failed
  \* parsing a raw sample and handing the result to the metrics handler
  rawStats,                 \* the raw sample of one stats line, as JSON.parse returned it
  statsFields,              \* config.docker.stats.fields (config.mjs:148)
  parsedStats,              \* what parseStats returned for rawStats
  handled                   \* what handleStats did with parsedStats

shutdownVars == <<handlers, isShuttingDown, timeout, hs, timers, armed, elapsed,
                  exited, started, runs, ignored, refused>>

eventsVars == <<eventsStream, pendingInfo, stopCalls, stopEvents, eventsSeen,
                lifecycle, startup, skipped, startFailed>>

metricsVars == <<rawStats, statsFields, parsedStats, handled>>

vars == <<streamVars, influxClientShutdown, retryVars, batchVars, shutdownVars,
          eventsVars, metricsVars>>

(***************************************************************************)
(* stats-parser.mjs: processBuffer and parseLine                           *)
(***************************************************************************)
indexOf(s, ch) ==
  IF \E i \in 1..Len(s) : s[i] = ch
  THEN (CHOOSE i \in 1..Len(s) : s[i] = ch /\ \A j \in 1..(i - 1) : s[j] # ch) - 1
  ELSE -1

RECURSIVE trimStart(_)
trimStart(s) == IF s # <<>> /\ Head(s) = SP THEN trimStart(Tail(s)) ELSE s

RECURSIVE trimEnd(_)
trimEnd(s) ==
  IF s # <<>> /\ s[Len(s)] = SP THEN trimEnd(SubSeq(s, 1, Len(s) - 1)) ELSE s

trim(s) == trimEnd(trimStart(s))

\* The while loop of processBuffer putting each line before the earlier ones
RECURSIVE extractLinesNewestFirst(_, _)
extractLinesNewestFirst(remainingBuffer, lines) ==
  IF Len(remainingBuffer) = 0
  THEN [lines |-> lines, remainingBuffer |-> remainingBuffer]
  ELSE LET boundary == indexOf(remainingBuffer, NL) IN
       IF boundary = -1
       THEN [lines |-> lines,
             remainingBuffer |-> IF Len(remainingBuffer) > limits.maxLineSize
                                 THEN <<>> ELSE remainingBuffer]
       ELSE LET line == trim(SubSeq(remainingBuffer, 1, boundary))
                rest == SubSeq(remainingBuffer, boundary + 2, Len(remainingBuffer))
            IN extractLinesNewestFirst(rest, IF line # <<>> THEN <<line>> \o lines
                                             ELSE lines)

\* The while loop of processBuffer pushing each line as it was sliced, untrimmed
RECURSIVE extractLinesUntrimmed(_, _)
extractLinesUntrimmed(remainingBuffer, lines) ==
  IF Len(remainingBuffer) = 0
  THEN [lines |-> lines, remainingBuffer |-> remainingBuffer]
  ELSE LET boundary == indexOf(remainingBuffer, NL) IN
       IF boundary = -1
       THEN [lines |-> lines,
             remainingBuffer |-> IF Len(remainingBuffer) > limits.maxLineSize
                                 THEN <<>> ELSE remainingBuffer]
       ELSE LET line == SubSeq(remainingBuffer, 1, boundary)
                rest == SubSeq(remainingBuffer, boundary + 2, Len(remainingBuffer))
            IN extractLinesUntrimmed(rest, IF line # <<>> THEN Append(lines, line)
                                           ELSE lines)

RECURSIVE extractLines(_, _)
extractLines(remainingBuffer, lines) ==
  IF Len(remainingBuffer) = 0
  THEN [lines |-> lines, remainingBuffer |-> remainingBuffer]
  ELSE LET boundary == indexOf(remainingBuffer, NL) IN
       IF boundary = -1
       THEN [lines |-> lines,
             remainingBuffer |-> IF Len(remainingBuffer) > limits.maxLineSize
                                 THEN <<>> ELSE remainingBuffer]
       ELSE LET line == trim(SubSeq(remainingBuffer, 1, boundary))
                rest == SubSeq(remainingBuffer, boundary + 2, Len(remainingBuffer))
            IN extractLines(rest, IF line # <<>> THEN Append(lines, line) ELSE lines)

\* processBuffer without its reset of a buffer above maxBufferSize
processBufferNoReset(currentBuffer, chunk) ==
  extractLines(currentBuffer \o chunk, <<>>)

processBuffer(currentBuffer, chunk) ==
  LET r == extractLines(currentBuffer \o chunk, <<>>) IN
  [lines |-> r.lines,
   remainingBuffer |-> IF Len(r.remainingBuffer) > limits.maxBufferSize
                       THEN <<>> ELSE r.remainingBuffer]

\* parseLine returns a ParsedStats for a well-formed record and null otherwise.
\* A record of the tape carries the digit of its timestamp.
Digits == <<"1", "2", "3", "4", "5", "6", "7", "8", "9">>

parseLine(line) ==
  /\ Len(line) = 1
  /\ line[1] = "g" \/ \E i \in 1..Len(Digits) : line[1] = Digits[i]

(***************************************************************************)
(* stream-manager.mjs.  The manager's functions run to completion, so they *)
(* are operators on the record m of everything they read and write.        *)
(***************************************************************************)
Manager ==
  [streams |-> streams, info |-> info, handle |-> handle, calls |-> <<>>,
   shutdown |-> containerWatcherShutdown, pendingStats |-> pendingStats,
   pendingInspect |-> pendingInspect, cleanup |-> cleanup, trans |-> trans,
   failRun |-> failRun, lastFired |-> lastFired, ok |-> FALSE,
   delivered |-> <<>>, unread |-> unread]

\* A StreamInfo that left the map is reachable only from the reactions still
\* pending on it; after that it is garbage and kept in one canonical form.
Collected(m, pending) ==
  [h \in Handles |->
     IF /\ m.info[h].state = "stopped"
        /\ \A i \in 1..Len(pending) : pending[i] # h
     THEN [buffer |-> <<>>, consecutiveErrors |-> 0, state |-> "stopped"]
     ELSE m.info[h]]

CommitStream(m) ==
  /\ streams' = m.streams
  /\ info' = Collected(m, microtasks \o m.calls)
  /\ handle' = m.handle
  /\ microtasks' = microtasks \o m.calls
  /\ containerWatcherShutdown' = m.shutdown
  /\ pendingStats' = m.pendingStats
  /\ pendingInspect' = m.pendingInspect
  /\ cleanup' = m.cleanup
  /\ trans' = m.trans
  /\ failRun' = m.failRun
  /\ lastFired' = m.lastFired
  /\ unread' = m.unread

Commit(m) ==
  /\ CommitStream(m)
  /\ UNCHANGED <<limits, sent, influxClientShutdown, retryVars, batchVars,
                 shutdownVars, eventsVars, metricsVars>>

\* validTransitions with a stopped stream allowed to become active again
validTransitionsReopen ==
  [starting |-> {"active", "stopped"},
   active |-> {"stopping", "stopped"},
   stopping |-> {"stopped"},
   stopped |-> {"active"}]

validTransitions ==
  [starting |-> {"active", "stopped"},
   active |-> {"stopping", "stopped"},
   stopping |-> {"stopped"},
   stopped |-> {}]

transitionStreamState(m, containerId, newState) ==
  LET h == m.streams[containerId] IN
  IF h = NoHandle THEN [m EXCEPT !.ok = FALSE]
  ELSE IF newState \notin validTransitions[m.info[h].state]
       THEN [m EXCEPT !.ok = FALSE]
       ELSE [m EXCEPT !.info[h].state = newState,
                      !.trans = @ \cup {<<m.info[h].state, newState>>},
                      !.ok = TRUE]

\* containers.mjs (validation.mjs:770): the part before the await
checkContainerStatus(m, containerId) ==
  IF m.shutdown THEN m
  ELSE [m EXCEPT !.pendingInspect[containerId] = @ + 1]

onStreamEnd(m, containerId) == checkContainerStatus(m, containerId)

\* removeStream without its stopping/stopped guard and without streams.delete
removeStreamKeepsEntry(m, containerId) ==
  LET h == m.streams[containerId] IN
  IF h = NoHandle THEN [m EXCEPT !.ok = FALSE]
  ELSE LET m1 == transitionStreamState(m, containerId, "stopping")
           m2 == [m1 EXCEPT !.handle[h].status = "destroyed",
                            !.cleanup[h].destroys = @ + 1]
           m3 == transitionStreamState(m2, containerId, "stopped")
           m5 == onStreamEnd([m3 EXCEPT !.cleanup[h].ends = @ + 1], containerId)
       IN [m5 EXCEPT !.ok = TRUE]

\* removeStream with streams.clear() in the place of streams.delete(containerId)
removeStreamClearsMap(m, containerId) ==
  LET h == m.streams[containerId] IN
  IF h = NoHandle THEN [m EXCEPT !.ok = FALSE]
  ELSE IF m.info[h].state \in {"stopping", "stopped"} THEN [m EXCEPT !.ok = FALSE]
  ELSE LET m1 == transitionStreamState(m, containerId, "stopping")
           m2 == [m1 EXCEPT !.handle[h].status = "destroyed",
                            !.cleanup[h].destroys = @ + 1]
           m3 == transitionStreamState(m2, containerId, "stopped")
           m4 == [m3 EXCEPT !.streams = [c \in Containers |-> NoHandle],
                            !.cleanup[h].deletes = @ + 1,
                            !.failRun[containerId] = 0]
           m5 == onStreamEnd([m4 EXCEPT !.cleanup[h].ends = @ + 1], containerId)
       IN [m5 EXCEPT !.ok = TRUE]

removeStream(m, containerId) ==
  LET h == m.streams[containerId] IN
  IF h = NoHandle THEN [m EXCEPT !.ok = FALSE]
  ELSE IF m.info[h].state \in {"stopping", "stopped"} THEN [m EXCEPT !.ok = FALSE]
  ELSE LET m1 == transitionStreamState(m, containerId, "stopping")
           m2 == [m1 EXCEPT !.handle[h].status = "destroyed",
                            !.cleanup[h].destroys = @ + 1]
           m3 == transitionStreamState(m2, containerId, "stopped")
           m4 == [m3 EXCEPT !.streams[containerId] = NoHandle,
                            !.cleanup[h].deletes = @ + 1,
                            !.failRun[containerId] = 0]
           m5 == onStreamEnd([m4 EXCEPT !.cleanup[h].ends = @ + 1], containerId)
       IN [m5 EXCEPT !.ok = TRUE]

\* removeStream when a call inside its try block throws: stream.destroy()
\* or the onStreamEnd callback. The catch logs and returns false; what the
\* try block did before the throw stays done.
ThrowPoints == {"destroy", "onStreamEnd"}

removeStreamThrowing(m, containerId, at) ==
  LET h == m.streams[containerId] IN
  IF h = NoHandle THEN [m EXCEPT !.ok = FALSE]
  ELSE IF m.info[h].state \in {"stopping", "stopped"} THEN [m EXCEPT !.ok = FALSE]
  ELSE LET m1 == transitionStreamState(m, containerId, "stopping")
           m2 == [m1 EXCEPT !.handle[h].status = "destroyed",
                            !.cleanup[h].destroys = @ + 1]
           m3 == transitionStreamState(m2, containerId, "stopped")
           m4 == [m3 EXCEPT !.streams[containerId] = NoHandle,
                            !.cleanup[h].deletes = @ + 1,
                            !.failRun[containerId] = 0]
       IN IF at = "destroy"
          THEN [m1 EXCEPT !.cleanup[h].destroys = @ + 1, !.ok = FALSE]
          ELSE [m4 EXCEPT !.cleanup[h].ends = @ + 1, !.ok = FALSE]

\* addStream without its refusal of an id that already has a stream
addStreamOverwrites(m, containerId, h) ==
  LET m1 == [m EXCEPT !.streams[containerId] = h,
                      !.info[h] = [buffer |-> <<>>, consecutiveErrors |-> 0,
                                   state |-> "starting"],
                      !.handle[h].wired = TRUE]
      m2 == transitionStreamState(m1, containerId, "active")
  IN [m2 EXCEPT !.ok = TRUE]

addStream(m, containerId, h) ==
  IF /\ m.streams[containerId] # NoHandle
     /\ m.info[m.streams[containerId]].state # "stopped"
  THEN [m EXCEPT !.ok = FALSE]
  ELSE LET m1 == [m EXCEPT !.streams[containerId] = h,
                           !.info[h] = [buffer |-> <<>>, consecutiveErrors |-> 0,
                                        state |-> "starting"],
                           !.handle[h].wired = TRUE]
           m2 == transitionStreamState(m1, containerId, "active")
       IN [m2 EXCEPT !.ok = TRUE]

\* The for loop of the 'data' listener over the extracted lines; g is the
\* StreamInfo the listener read from the map when it started.
\* The for loop without the return that follows removeStream
RECURSIVE dataLinesNoReturn(_, _, _, _)
dataLinesNoReturn(m, containerId, g, lines) ==
  IF lines = <<>> THEN m
  ELSE LET line == Head(lines)
           m1 == IF parseLine(line)
                 THEN [m EXCEPT !.calls = Append(@, g),
                                !.delivered = Append(@, line),
                                !.failRun[containerId] = 0]
                 ELSE [m EXCEPT !.info[g].consecutiveErrors = @ + 1,
                                !.failRun[containerId] = @ + 1]
           m2 == IF m1.info[g].consecutiveErrors >= MAX_CONSECUTIVE_ERRORS
                 THEN removeStream([m1 EXCEPT !.lastFired = m1.failRun[containerId],
                                              !.unread = Len(Tail(lines))],
                                   containerId)
                 ELSE m1
       IN dataLinesNoReturn(m2, containerId, g, Tail(lines))

RECURSIVE dataLines(_, _, _, _)
dataLines(m, containerId, g, lines) ==
  IF lines = <<>> THEN m
  ELSE LET line == Head(lines)
           m1 == IF parseLine(line)
                 THEN [m EXCEPT !.calls = Append(@, g),
                                !.delivered = Append(@, line),
                                !.failRun[containerId] = 0]
                 ELSE [m EXCEPT !.info[g].consecutiveErrors = @ + 1,
                                !.failRun[containerId] = @ + 1]
       IN IF m1.info[g].consecutiveErrors >= MAX_CONSECUTIVE_ERRORS
          THEN removeStream([m1 EXCEPT !.lastFired = m1.failRun[containerId],
                                       !.unread = Len(Tail(lines))],
                            containerId)
          ELSE dataLines(m1, containerId, g, Tail(lines))

onData(m, containerId, chunk) ==
  LET g == m.streams[containerId] IN
  IF g = NoHandle THEN m
  ELSE IF m.info[g].state # "active" THEN m
  ELSE LET r == processBuffer(m.info[g].buffer, chunk)
           m1 == [m EXCEPT !.info[g].buffer = r.remainingBuffer]
       IN dataLines(m1, containerId, g, r.lines)

RECURSIVE removeEach(_, _)
removeEach(m, containerIds) ==
  IF containerIds = {} THEN m
  ELSE LET c == CHOOSE x \in containerIds : TRUE IN
       removeEach(removeStream(m, c), containerIds \ {c})

\* removeAllStreams without its loop over removeStream
removeAllStreamsOnlyClears(m) ==
  [m EXCEPT !.streams = [c \in Containers |-> NoHandle]]

removeAllStreams(m) ==
  LET m1 == removeEach(m, {c \in Containers : m.streams[c] # NoHandle}) IN
  [m1 EXCEPT !.streams = [c \in Containers |-> NoHandle]]

(***************************************************************************)
(* containers.mjs (validation.mjs:752-860): the container watcher          *)
(***************************************************************************)
Opened == (nextHandle - 1)
InFlightStats ==
  LET RECURSIVE Sum(_)
      Sum(S) == IF S = {} THEN 0
                ELSE LET c == CHOOSE x \in S : TRUE IN pendingStats[c] + Sum(S \ {c})
  IN Sum(Containers)

\* watchContainer up to its await of container.stats({stream: true})
watchContainer(m, containerId) ==
  IF m.shutdown THEN m
  ELSE [m EXCEPT !.pendingStats[containerId] = @ + 1]

\* checkContainerStatus after its await, restarting whatever was reported
inspectSettledRestarts(m, containerId, result) == watchContainer(m, containerId)

\* checkContainerStatus after its await of container.inspect(): result is
\* "running" for info.State.Running, "notRunning" otherwise and "notFound"
\* for the rejection with statusCode 404.
inspectSettled(m, containerId, result) ==
  IF result = "running" THEN watchContainer(m, containerId) ELSE m

Quiet == microtasks = <<>>

Returned(ok) == IF ok THEN "true" ELSE "false"

WatchContainer(c) ==
  /\ Quiet
  /\ Opened + InFlightStats < MaxHandles
  /\ Commit(watchContainer(Manager, c))
  /\ UNCHANGED <<nextHandle, lateEvents, anyRejected, ret>>

\* container.stats() resolved: addStream, and destroy the stream if it was refused
StatsOpened(c) ==
  /\ Quiet
  /\ pendingStats[c] > 0
  /\ nextHandle <= MaxHandles
  /\ LET h == nextHandle
         m0 == [Manager EXCEPT !.pendingStats[c] = @ - 1,
                               !.handle[h] = [status |-> "open", wired |-> FALSE,
                                              cid |-> c]]
         m1 == addStream(m0, c, h)
         m2 == IF m1.ok THEN m1
               ELSE [m1 EXCEPT !.handle[h].status = "destroyed",
                               !.cleanup[h].destroys = @ + 1]
     IN /\ Commit(m2)
        /\ ret' = ret
  /\ nextHandle' = nextHandle + 1
  /\ UNCHANGED <<lateEvents, anyRejected>>

\* container.stats() rejected: logged
StatsFailed(c) ==
  /\ Quiet
  /\ pendingStats[c] > 0
  /\ Commit([Manager EXCEPT !.pendingStats[c] = @ - 1])
  /\ UNCHANGED <<nextHandle, lateEvents, anyRejected, ret>>

UnwatchContainer(c) ==
  /\ Quiet
  /\ LET m1 == removeStream(Manager, c)
     IN /\ Commit(m1)
        /\ ret' = Returned(m1.ok)
  /\ UNCHANGED <<nextHandle, lateEvents, anyRejected>>

\* unwatchContainer when stream.destroy() or onStreamEnd throws inside
\* removeStream
UnwatchThrows(c, at) ==
  /\ Quiet
  /\ streams[c] # NoHandle
  /\ LET m1 == removeStreamThrowing(Manager, c, at)
     IN /\ Commit(m1)
        /\ ret' = Returned(m1.ok)
  /\ UNCHANGED <<nextHandle, lateEvents, anyRejected>>

\* container.inspect() settled inside checkContainerStatus
InspectDone(c, result) ==
  /\ Quiet
  /\ pendingInspect[c] > 0
  /\ result = "running" => Opened + InFlightStats < MaxHandles
  /\ LET m0 == [Manager EXCEPT !.pendingInspect[c] = @ - 1]
     IN Commit(inspectSettled(m0, c, result))
  /\ UNCHANGED <<nextHandle, lateEvents, anyRejected, ret>>

WatcherShutdown ==
  /\ Quiet
  /\ ~containerWatcherShutdown
  /\ Commit(removeAllStreams([Manager EXCEPT !.shutdown = TRUE]))
  /\ UNCHANGED <<nextHandle, lateEvents, anyRejected, ret>>

(***************************************************************************)
(* The events of a stats stream, delivered to the listeners addStream      *)
(* attached to it.                                                         *)
(***************************************************************************)
ChunksUpTo(n) == UNION {[1..k -> StreamChars] : k \in 1..n}
Chunks == ChunksUpTo(MaxChunkLen)
\* One whole record per chunk, well-formed or not.
LineChunks == {<<"g", NL>>, <<"b", NL>>}

Emits(h) ==
  /\ handle[h].wired
  /\ lateEvents \/ handle[h].status = "open"

StreamData(h, chunk) ==
  /\ Quiet
  /\ Emits(h)
  /\ LET m1 == onData(Manager, handle[h].cid, chunk)
     IN /\ Commit(m1)
        /\ ret' = IF m1.cleanup # cleanup THEN Returned(m1.ok) ELSE ret
  /\ UNCHANGED <<nextHandle, lateEvents, anyRejected>>

StreamEnd(h) ==
  /\ Quiet
  /\ Emits(h)
  /\ LET m1 == removeStream(Manager, handle[h].cid)
     IN /\ Commit(m1)
        /\ ret' = Returned(m1.ok)
  /\ UNCHANGED <<nextHandle, lateEvents, anyRejected>>

StreamError(h) ==
  /\ Quiet
  /\ Emits(h)
  /\ LET m1 == removeStream(Manager, handle[h].cid)
     IN /\ Commit(m1)
        /\ ret' = Returned(m1.ok)
  /\ UNCHANGED <<nextHandle, lateEvents, anyRejected>>

\* The promise onStats returned settles: .then resets the counter of the
\* StreamInfo the listener held, .catch increments it.
StatsSettled(fulfilled) ==
  /\ microtasks # <<>>
  /\ LET g == Head(microtasks) IN
     info' = Collected([info |-> [info EXCEPT ![g].consecutiveErrors =
                                           IF fulfilled THEN 0 ELSE @ + 1]],
                       Tail(microtasks))
  /\ anyRejected' = (anyRejected \/ ~fulfilled)
  /\ microtasks' = Tail(microtasks)
  /\ UNCHANGED <<streams, handle, containerWatcherShutdown, pendingStats,
                 pendingInspect, nextHandle, lateEvents, cleanup, trans, failRun,
                 lastFired, ret, limits, sent, unread>>
  /\ UNCHANGED <<influxClientShutdown, retryVars, batchVars, shutdownVars, eventsVars, metricsVars>>

(***************************************************************************)
(* utils/common (part_008) and influx.mjs: the retrying InfluxDB client.   *)
(* An error message is the set of the fragments it contains, and a pattern *)
(* the set of the fragments it matches.                                    *)
(***************************************************************************)
Fragments ==
  {"unauthorized", "forbidden", "database not found", "invalid database",
   "ENOTFOUND", "ECONNREFUSED", "connect ETIMEDOUT", "No host available",
   "socket hang up"}

Messages == {e \in SUBSET Fragments : Cardinality(e) \in 1..MaxFragments}
NoError == {}

DEFAULT_RETRY_OPTIONS ==
  [maxRetries |-> 5, initialDelayMs |-> 1000, maxDelayMs |-> 10000,
   backoffFactor |-> 2]

FATAL_ERROR_PATTERNS ==
  <<[pattern |-> {"unauthorized", "forbidden"}],
    [pattern |-> {"database not found"}],
    [pattern |-> {"invalid database"}]>>

RETRYABLE_ERROR_PATTERNS ==
  <<[pattern |-> {"ENOTFOUND"}, maxAttempts |-> 10],
    [pattern |-> {"ECONNREFUSED"}, maxAttempts |-> 10],
    [pattern |-> {"connect ETIMEDOUT"}, maxAttempts |-> 5],
    [pattern |-> {"No host available"}, maxAttempts |-> 10]>>

test(pattern, message) == pattern \cap message # {}

\* The first entry of a pattern table that matches, 0 if none does.
firstMatch(patterns, message) ==
  IF \E i \in 1..Len(patterns) : test(patterns[i].pattern, message)
  THEN CHOOSE i \in 1..Len(patterns) :
         /\ test(patterns[i].pattern, message)
         /\ \A j \in 1..(i - 1) : ~test(patterns[j].pattern, message)
  ELSE 0

\* isRetryableError without its loop over the fatal patterns
isRetryableErrorNoFatal(error, n) ==
  LET r == firstMatch(RETRYABLE_ERROR_PATTERNS, error) IN
  IF r # 0
  THEN [shouldRetry |-> n < RETRYABLE_ERROR_PATTERNS[r].maxAttempts,
        maxAttempts |-> RETRYABLE_ERROR_PATTERNS[r].maxAttempts]
  ELSE [shouldRetry |-> TRUE, maxAttempts |-> 0]

isRetryableError(error, n) ==
  IF firstMatch(FATAL_ERROR_PATTERNS, error) # 0
  THEN [shouldRetry |-> FALSE, maxAttempts |-> 0]
  ELSE LET r == firstMatch(RETRYABLE_ERROR_PATTERNS, error) IN
       IF r # 0
       THEN [shouldRetry |-> n < RETRYABLE_ERROR_PATTERNS[r].maxAttempts,
             maxAttempts |-> RETRYABLE_ERROR_PATTERNS[r].maxAttempts]
       ELSE [shouldRetry |-> TRUE, maxAttempts |-> 0]

\* The shouldRetry callback withInfluxRetry hands to retryWithBackoff
shouldRetry(error, n) == isRetryableError(error, n).shouldRetry

RECURSIVE pow(_, _)
pow(b, e) == IF e = 0 THEN 1 ELSE b * pow(b, e - 1)

min(a, b) == IF a < b THEN a ELSE b
max(a, b) == IF a > b THEN a ELSE b

\* The random jitter is one of its extremes or none: -10%, 0, +10%.
Jitters == {-1, 0, 1}

calculateBackoff(n, o, j) ==
  LET baseDelay == min(o.initialDelayMs * pow(o.backoffFactor, n - 1), o.maxDelayMs)
      jitterRange == baseDelay \div 10
  IN max(0, baseDelay + j * jitterRange)

\* What kind of error the call has seen so far, for the properties.
kind(error) ==
  IF firstMatch(FATAL_ERROR_PATTERNS, error) # 0 THEN "fatal"
  ELSE LET r == firstMatch(RETRYABLE_ERROR_PATTERNS, error) IN
       IF r = 0 THEN "unexpected"
       ELSE CHOOSE f \in RETRYABLE_ERROR_PATTERNS[r].pattern : TRUE

Settled == {"idle", "resolved", "rejected", "threw"}

\* withInfluxRetry without its check of influxClientShutdown
withInfluxRetryUnguarded(closed) ==
  [rpc |-> "calling", attempt |-> 1, invocations |-> 1]

\* withInfluxRetry(operation): throws if the client is shut down, otherwise
\* enters retryWithBackoff, whose first iteration calls the operation.
withInfluxRetry(closed) ==
  IF closed
  THEN [rpc |-> "threw", attempt |-> 0, invocations |-> 0]
  ELSE [rpc |-> "calling", attempt |-> 1, invocations |-> 1]

\* A call of writePoints, getDatabaseNames, createDatabase or ping
InfluxCall ==
  /\ rpc \in Settled
  /\ LET call == withInfluxRetry(influxClientShutdown) IN
     /\ rpc' = call.rpc
     /\ attempt' = call.attempt
     /\ invocations' = call.invocations
  /\ lastError' = NoError
  /\ delay' = 0
  /\ sleeps' = 0
  /\ uniform' = "none"
  /\ UNCHANGED <<options, influxClientShutdown, streamVars, batchVars, shutdownVars, eventsVars, metricsVars>>

OperationResolves ==
  /\ rpc = "calling"
  /\ rpc' = "resolved"
  /\ UNCHANGED <<options, attempt, lastError, delay, invocations, sleeps, uniform,
                 influxClientShutdown, streamVars, batchVars, shutdownVars, eventsVars, metricsVars>>

\* The catch block of retryWithBackoff for the error the operation rejected with
OperationRejects(error, j) ==
  /\ rpc = "calling"
  /\ lastError' = error
  /\ uniform' = IF uniform \in {"none", kind(error)} THEN kind(error) ELSE "mixed"
  /\ IF attempt = options.maxRetries \/ ~shouldRetry(error, attempt)
     THEN /\ rpc' = "rejected"
          /\ UNCHANGED <<delay, sleeps>>
     ELSE /\ rpc' = "sleeping"
          /\ delay' = calculateBackoff(attempt, options, j)
          /\ sleeps' = sleeps + 1
  /\ UNCHANGED <<options, attempt, invocations, influxClientShutdown, streamVars,
                 batchVars, shutdownVars, eventsVars, metricsVars>>

\* sleep(delay) is over: the next iteration of the loop calls the operation
SleepElapsed ==
  /\ rpc = "sleeping"
  /\ attempt' = attempt + 1
  /\ IF attempt + 1 <= options.maxRetries
     THEN /\ rpc' = "calling"
          /\ invocations' = invocations + 1
     ELSE /\ rpc' = "rejected"
          /\ UNCHANGED invocations
  /\ delay' = 0
  /\ UNCHANGED <<options, lastError, sleeps, uniform, influxClientShutdown,
                 streamVars, batchVars, shutdownVars, eventsVars, metricsVars>>

InfluxClose ==
  /\ ~influxClientShutdown
  /\ influxClientShutdown' = TRUE
  /\ UNCHANGED <<retryVars, streamVars, batchVars, shutdownVars, eventsVars, metricsVars>>

RetryIdle ==
  /\ options = DEFAULT_RETRY_OPTIONS
  /\ rpc = "idle"
  /\ attempt = 0
  /\ lastError = NoError
  /\ delay = 0
  /\ invocations = 0
  /\ sleeps = 0
  /\ uniform = "none"

(***************************************************************************)
(* batch.mjs and metrics/handler.mjs: the metrics batcher.  Points are     *)
(* numbered in the order handleStats produces them.  The flush timer is    *)
(* timed; the delays between the attempts of writeBatch are not.           *)
(***************************************************************************)
NoTimer == -1

\* The options of the batcher the metrics handler creates (handler.mjs:40)
config == [maxSize |-> MaxSize, maxWaitMs |-> MaxWaitMs, maxRetries |-> BatchMaxRetries]

Points == 1..MaxPoints

RECURSIVE range(_, _)
range(a, b) == IF a > b THEN <<>> ELSE <<a>> \o range(a + 1, b)

elems(s) == {s[i] : i \in 1..Len(s)}

Batcher ==
  [batch |-> batch, flushTimeout |-> flushTimeout, sinceFlush |-> sinceFlush,
   isShutdown |-> isShutdown, flights |-> flights, mhPc |-> mhPc,
   written |-> written, closed |-> influxClientShutdown,
   lastOutcome |-> lastOutcome, liveTimers |-> liveTimers,
   timerFired |-> timerFired, queued |-> queued]

CommitBatcher(b) ==
  /\ batch' = b.batch
  /\ flushTimeout' = b.flushTimeout
  /\ sinceFlush' = b.sinceFlush
  /\ isShutdown' = b.isShutdown
  /\ flights' = b.flights
  /\ mhPc' = b.mhPc
  /\ written' = b.written
  /\ influxClientShutdown' = b.closed
  /\ lastOutcome' = b.lastOutcome
  /\ liveTimers' = b.liveTimers
  /\ timerFired' = b.timerFired
  /\ queued' = b.queued

CommitBatch(b) ==
  /\ CommitBatcher(b)
  /\ UNCHANGED <<streamVars, retryVars, shutdownVars, eventsVars, metricsVars>>

\* scheduleFlush without its check for a timer already pending
scheduleFlushAgain(b) ==
  IF b.isShutdown THEN b
  ELSE [b EXCEPT !.flushTimeout = max(0, config.maxWaitMs - b.sinceFlush),
                 !.liveTimers = @ + 1]

scheduleFlush(b) ==
  IF b.flushTimeout # NoTimer \/ b.isShutdown THEN b
  ELSE [b EXCEPT !.flushTimeout = max(0, config.maxWaitMs - b.sinceFlush),
                 !.liveTimers = @ + 1]

\* handler.mjs:97-98: batcher.shutdown() has resolved, the client is closed
shutdownResumes(b) == [b EXCEPT !.closed = TRUE, !.mhPc = "resolved"]

\* flush() after its await of writeBatch, with the failed points dropped
flushSettledDropping(b, f, success) ==
  LET b1 == [b EXCEPT !.flights = @ \ {f},
                      !.lastOutcome = IF success THEN "written" ELSE "dropped"]
  IN IF f.awaited THEN shutdownResumes(b1) ELSE b1

\* flush() after its await of writeBatch, re-queueing the failed points
\* without scheduleFlush()
flushSettledUnscheduled(b, f, success) ==
  LET b1 == [b EXCEPT !.flights = @ \ {f}]
      b2 == IF ~success /\ ~b1.isShutdown
            THEN [b1 EXCEPT !.batch = @ \o f.points, !.lastOutcome = "requeued"]
            ELSE [b1 EXCEPT !.lastOutcome = IF success THEN "written" ELSE "dropped"]
  IN IF f.awaited THEN shutdownResumes(b2) ELSE b2

\* flush() after its await of writeBatch (batch.mjs:116-128)
flushSettled(b, f, success) ==
  LET b1 == [b EXCEPT !.flights = @ \ {f}]
      b2 == IF ~success /\ ~b1.isShutdown
            THEN scheduleFlush([b1 EXCEPT !.batch = @ \o f.points,
                                          !.lastOutcome = "requeued"])
            ELSE [b1 EXCEPT !.lastOutcome = IF success THEN "written" ELSE "dropped"]
  IN IF f.awaited THEN shutdownResumes(b2) ELSE b2

\* The catch block of writeBatch for attempt f.attempt
attemptFailed(b, f) ==
  LET isLastAttempt == f.attempt = config.maxRetries - 1 IN
  IF isLastAttempt THEN flushSettled(b, f, FALSE)
  ELSE [b EXCEPT !.flights = (@ \ {f}) \cup {[f EXCEPT !.phase = "sleep"]}]

\* One iteration of writeBatch's loop: influx.writePoints(points) throws at
\* once if the client is closed, otherwise the write is in flight.
writeAttempt(b, f) ==
  LET b1 == [b EXCEPT !.flights = @ \cup {f}] IN
  IF b.closed THEN attemptFailed(b1, f) ELSE b1

\* if (flushTimeout) { clearTimeout(flushTimeout); flushTimeout = null; }
clearFlushTimeout(b) ==
  IF b.flushTimeout # NoTimer
  THEN [b EXCEPT !.flushTimeout = NoTimer, !.liveTimers = @ - 1]
  ELSE b

\* flush without batch = []: the points it writes stay pending
flushKeepsBatch(b, awaited) ==
  LET b1 == clearFlushTimeout(b) IN
  IF b1.batch = <<>> THEN b1
  ELSE LET pointsToWrite == b1.batch
           b2 == [b1 EXCEPT !.sinceFlush = 0]
       IN writeAttempt(b2, [points |-> pointsToWrite, attempt |-> 0,
                            phase |-> "write", awaited |-> awaited])

flush(b, awaited) ==
  LET b1 == clearFlushTimeout(b) IN
  IF b1.batch = <<>> THEN b1
  ELSE LET pointsToWrite == b1.batch
           b2 == [b1 EXCEPT !.batch = <<>>, !.sinceFlush = 0]
       IN writeAttempt(b2, [points |-> pointsToWrite, attempt |-> 0,
                            phase |-> "write", awaited |-> awaited])

\* add without its check of isShutdown
addAfterShutdown(b, pointsArray) ==
  IF pointsArray = <<>> THEN b
  ELSE LET b1 == [b EXCEPT !.batch = @ \o pointsArray,
                           !.queued = @ \o pointsArray] IN
       IF Len(b1.batch) >= config.maxSize THEN flush(b1, FALSE)
       ELSE scheduleFlush(b1)

\* add flushing only above maxSize
addFlushesAbove(b, pointsArray) ==
  IF b.isShutdown THEN b
  ELSE IF pointsArray = <<>> THEN b
  ELSE LET b1 == [b EXCEPT !.batch = @ \o pointsArray,
                           !.queued = @ \o pointsArray] IN
       IF Len(b1.batch) > config.maxSize THEN flush(b1, FALSE)
       ELSE scheduleFlush(b1)

add(b, pointsArray) ==
  IF b.isShutdown THEN b
  ELSE IF pointsArray = <<>> THEN b
  ELSE LET b1 == [b EXCEPT !.batch = @ \o pointsArray,
                           !.queued = @ \o pointsArray] IN
       IF Len(b1.batch) >= config.maxSize THEN flush(b1, FALSE)
       ELSE scheduleFlush(b1)

\* The batcher's shutdown(), up to its await of flush()
batcherShutdown(b) ==
  LET b1 == clearFlushTimeout([b EXCEPT !.isShutdown = TRUE]) IN
  IF b1.batch # <<>>
  THEN LET b2 == flush([b1 EXCEPT !.mhPc = "awaitFlush"], TRUE) IN b2
  ELSE shutdownResumes(b1)

\* transformer.mjs: the one point of a snapshot, with the snapshot's timestamp
transformStats(stats) == <<CHOOSE i \in 1..Len(Digits) : Digits[i] = stats[1]>>

\* handler.mjs:73 for a snapshot whose points are valid
handleStats(b, stats) == add(b, transformStats(stats))

\* The onStats calls of one run of the 'data' listener, in the order made
RECURSIVE onStatsEach(_, _)
onStatsEach(b, delivered) ==
  IF delivered = <<>> THEN b
  ELSE onStatsEach(handleStats(b, Head(delivered)), Tail(delivered))

\* handleStats queues the n points of a snapshot
HandleStats(n) ==
  /\ nextPoint + n - 1 <= MaxPoints
  /\ CommitBatch(add(Batcher, range(nextPoint, nextPoint + n - 1)))
  /\ nextPoint' = IF isShutdown THEN nextPoint ELSE nextPoint + n
  /\ UNCHANGED sinkFailed

\* handleStats queues the n points of a snapshot while the sink is down
HandleStatsOutage(n) ==
  /\ nextPoint + n - 1 <= MaxOutagePoints
  /\ CommitBatch(add(Batcher, range(nextPoint, nextPoint + n - 1)))
  /\ nextPoint' = nextPoint + n
  /\ UNCHANGED sinkFailed

FlushTimerFires ==
  /\ flushTimeout = 0
  /\ CommitBatch(flush([Batcher EXCEPT !.flushTimeout = NoTimer,
                                       !.liveTimers = @ - 1,
                                       !.timerFired = TRUE], FALSE))
  /\ UNCHANGED <<nextPoint, sinkFailed>>

\* A unit of time passes; a timer that is due fires first.
BatchTick ==
  /\ flushTimeout # 0
  /\ flushTimeout' = IF flushTimeout = NoTimer THEN NoTimer ELSE flushTimeout - 1
  /\ sinceFlush' = min(sinceFlush + 1, config.maxWaitMs + 1)
  /\ UNCHANGED <<batch, isShutdown, flights, mhPc, written, nextPoint, sinkFailed,
                 lastOutcome, liveTimers, timerFired, queued,
                 influxClientShutdown,
                 streamVars, retryVars, shutdownVars, eventsVars, metricsVars>>

\* A flush in flight is known by the first point it detached.
Flying(p) == \E f \in flights : Head(f.points) = p
FlightOf(p) == CHOOSE f \in flights : Head(f.points) = p

\* influx.writePoints(points) resolved: writeBatch returns true
WriteResolves(p) ==
  /\ Flying(p)
  /\ LET f == FlightOf(p) IN
     /\ f.phase = "write"
     /\ CommitBatch(flushSettled([Batcher EXCEPT !.written = @ \cup elems(f.points)],
                                 f, TRUE))
  /\ UNCHANGED <<nextPoint, sinkFailed>>

\* influx.writePoints(points) rejected
WriteRejects(p) ==
  /\ Flying(p)
  /\ LET f == FlightOf(p) IN
     /\ f.phase = "write"
     /\ CommitBatch(attemptFailed(Batcher, f))
  /\ sinkFailed' = TRUE
  /\ UNCHANGED nextPoint

\* The delay after a failed attempt is over: the next attempt
RetryDelayElapsed(p) ==
  /\ Flying(p)
  /\ LET f == FlightOf(p) IN
     /\ f.phase = "sleep"
     /\ CommitBatch(writeAttempt([Batcher EXCEPT !.flights = @ \ {f}],
                                 [f EXCEPT !.phase = "write", !.attempt = @ + 1]))
  /\ UNCHANGED <<nextPoint, sinkFailed>>

\* The metrics handler's shutdown()
MetricsShutdown ==
  /\ mhPc = "idle"
  /\ CommitBatch(batcherShutdown(Batcher))
  /\ UNCHANGED <<nextPoint, sinkFailed>>

BatchIdle ==
  /\ batch = <<>>
  /\ flushTimeout = NoTimer
  /\ sinceFlush = 0
  /\ isShutdown = FALSE
  /\ flights = {}
  /\ mhPc = "idle"
  /\ written = {}
  /\ nextPoint = 1
  /\ sinkFailed = FALSE
  /\ lastOutcome = "none"
  /\ liveTimers = 0
  /\ timerFired = FALSE
  /\ queued = <<>>

(***************************************************************************)
(* utils/shutdown (part_006): the graceful shutdown manager.  Time is      *)
(* counted from the moment the shutdown sequence begins; a timer that is   *)
(* due fires, and the exit that is due happens, before more time passes.   *)
(***************************************************************************)
Names == {"events-manager", "container-watcher", "metrics-handler"}
Signals == {"SIGTERM", "SIGINT", "uncaughtException", "unhandledRejection"}
Timeouts == 1..MaxTimeout

State ==
  [handlers |-> handlers, isShuttingDown |-> isShuttingDown, timeout |-> timeout,
   hs |-> hs, timers |-> timers, armed |-> armed, elapsed |-> elapsed,
   started |-> started, runs |-> runs, ignored |-> ignored,
   refused |-> refused]

CommitShutdown(s) ==
  /\ handlers' = s.handlers
  /\ isShuttingDown' = s.isShuttingDown
  /\ timeout' = s.timeout
  /\ hs' = s.hs
  /\ timers' = s.timers
  /\ armed' = s.armed
  /\ elapsed' = s.elapsed
  /\ started' = s.started
  /\ runs' = s.runs
  /\ ignored' = s.ignored
  /\ refused' = s.refused
  /\ UNCHANGED <<streamVars, influxClientShutdown, retryVars, batchVars,
                 eventsVars, metricsVars>>

\* executeHandler without the timeout promise in its race
executeHandlerNoTimeout(s, name, throws) ==
  LET s1 == [s EXCEPT !.started[name] = @ + 1] IN
  IF throws THEN [s1 EXCEPT !.hs[name] = "failed"]
  ELSE [s1 EXCEPT !.hs[name] = "running"]

\* executeHandler up to its await: handler() is called and, unless it threw,
\* the timeout timer is created beside it.
executeHandler(s, name, throws) ==
  LET s1 == [s EXCEPT !.started[name] = @ + 1] IN
  IF throws THEN [s1 EXCEPT !.hs[name] = "failed"]
  ELSE [s1 EXCEPT !.hs[name] = "running", !.timers[name] = s.timeout]

RECURSIVE executeAll(_, _, _)
executeAll(s, names, throwers) ==
  IF names = {} THEN s
  ELSE LET n == CHOOSE x \in names : TRUE IN
       executeAll(executeHandler(s, n, n \in throwers), names \ {n}, throwers)

\* shutdown(signal) without its isShuttingDown guard
shutdownUnguarded(s, signal, throwers) ==
  executeAll([s EXCEPT !.isShuttingDown = TRUE, !.runs = @ + 1,
                       !.armed = s.timeout, !.elapsed = 0],
             s.handlers, throwers)

\* shutdown(signal) up to its await of Promise.allSettled
shutdown(s, signal, throwers) ==
  IF s.isShuttingDown THEN [s EXCEPT !.ignored = TRUE]
  ELSE executeAll([s EXCEPT !.isShuttingDown = TRUE, !.runs = @ + 1,
                            !.armed = s.timeout, !.elapsed = 0],
                  s.handlers, throwers)

\* register(name, handler) without its isShuttingDown guard
registerUnguarded(s, name) ==
  [s EXCEPT !.handlers = @ \cup {name}]

register(s, name) ==
  IF s.isShuttingDown THEN [s EXCEPT !.refused = @ \cup {name}]
  ELSE [s EXCEPT !.handlers = @ \cup {name}]

\* Promise.race in the place of Promise.allSettled: the first handler to settle
FirstSettled ==
  /\ isShuttingDown
  /\ handlers = {} \/ \E n \in handlers : hs[n] # "running"

\* Promise.allSettled has resolved: only process.exit(0) is left to run.
AllSettled ==
  /\ isShuttingDown
  /\ \A n \in handlers : hs[n] # "running"

Running == ~exited /\ ~AllSettled

Register(name) ==
  /\ Running
  /\ CommitShutdown(register(State, name))
  /\ UNCHANGED exited

SetTimeout(value) ==
  /\ Running
  /\ CommitShutdown([State EXCEPT !.timeout = value])
  /\ UNCHANGED exited

\* A signal, an uncaught exception or an unhandled rejection (init's listeners)
Trigger(signal, throwers) ==
  /\ Running
  /\ throwers \subseteq handlers
  /\ CommitShutdown(shutdown(State, signal, throwers))
  /\ UNCHANGED exited

HandlerResolves(name) ==
  /\ Running
  /\ hs[name] = "running"
  /\ CommitShutdown([State EXCEPT !.hs[name] = "completed"])
  /\ UNCHANGED exited

HandlerRejects(name) ==
  /\ Running
  /\ hs[name] = "running"
  /\ CommitShutdown([State EXCEPT !.hs[name] = "failed"])
  /\ UNCHANGED exited

\* The timer of executeHandler's race rejects it
TimerFires(name) ==
  /\ Running
  /\ timers[name] = 0
  /\ CommitShutdown([State EXCEPT !.timers[name] = NoTimer,
                                  !.hs[name] = IF @ = "running" THEN "timedOut" ELSE @])
  /\ UNCHANGED exited

\* The finally block of shutdown: process.exit(0)
Exit ==
  /\ ~exited
  /\ AllSettled
  /\ exited' = TRUE
  /\ UNCHANGED <<handlers, isShuttingDown, timeout, hs, timers, armed, elapsed,
                 started, runs, ignored, refused>>
  /\ UNCHANGED <<streamVars, influxClientShutdown, retryVars, batchVars,
                 eventsVars, metricsVars>>

ShutdownTick ==
  /\ Running
  /\ isShuttingDown
  /\ \A n \in Names : timers[n] # 0
  /\ elapsed <= MaxTimeout
  /\ CommitShutdown([State EXCEPT
       !.elapsed = @ + 1,
       !.timers = [n \in Names |-> IF timers[n] = NoTimer THEN NoTimer
                                   ELSE timers[n] - 1]])
  /\ UNCHANGED exited

(***************************************************************************)
(* part_010: createDockerEventsManager and the callbacks main gives it     *)
(***************************************************************************)
Statuses == {"start", "stop", "die", "kill", "destroy"}
StopStatuses == {"stop", "die", "kill"}

\* What a 'data' event of the events stream carries: text that JSON.parse
\* rejects, or an event whose status and id may be missing ("").
Payloads ==
  {[json |-> FALSE, status |-> "", id |-> ""]}
    \cup [json : {TRUE}, status : Statuses \cup {""}, id : Containers \cup {""}]

\* How container.inspect() settles inside getContainerInfo
InfoOutcomes == {"named", "unnamed", "notFound", "error"}

EventsManager ==
  [pendingInfo |-> pendingInfo, stopCalls |-> stopCalls, skipped |-> skipped,
   startFailed |-> startFailed, m |-> Manager]

\* main's onContainerStop: containerWatcher.unwatchContainer(containerId)
onContainerStop(e, containerId) ==
  [e EXCEPT !.stopCalls[containerId] = @ + 1,
            !.m = removeStream(e.m, containerId)]

\* main's onContainerStart: containerWatcher.watchContainer(id, name)
onContainerStart(e, containerId) ==
  [e EXCEPT !.m = watchContainer(e.m, containerId)]

\* The data listener calling the stop callback only for an id that has a stream
onEventDataIfWatched(e, payload) ==
  IF ~payload.json THEN [e EXCEPT !.skipped = TRUE]
  ELSE IF payload.status = "" \/ payload.id = "" THEN [e EXCEPT !.skipped = TRUE]
  ELSE IF payload.status = "start"
       THEN [e EXCEPT !.pendingInfo[payload.id] = @ + 1]
  ELSE IF payload.status \in StopStatuses /\ e.m.streams[payload.id] # NoHandle
       THEN onContainerStop(e, payload.id)
  ELSE e

\* The data listener of the events stream up to its first await
onEventData(e, payload) ==
  IF ~payload.json THEN [e EXCEPT !.skipped = TRUE]
  ELSE IF payload.status = "" \/ payload.id = "" THEN [e EXCEPT !.skipped = TRUE]
  ELSE IF payload.status = "start"
       THEN [e EXCEPT !.pendingInfo[payload.id] = @ + 1]
  ELSE IF payload.status \in StopStatuses
       THEN onContainerStop(e, payload.id)
  ELSE e

\* getContainerInfo after its await: it returns {id, name} for an info with
\* a Name and throws for anything else.
getContainerInfo(outcome) == IF outcome = "named" THEN "returns" ELSE "throws"

\* The start case of the data listener after getContainerInfo settled
onInfoSettled(e, containerId, outcome) ==
  LET e1 == [e EXCEPT !.pendingInfo[containerId] = @ - 1] IN
  IF getContainerInfo(outcome) = "returns" THEN onContainerStart(e1, containerId)
  ELSE [e1 EXCEPT !.startFailed = TRUE]

CommitEvents(e) ==
  /\ pendingInfo' = e.pendingInfo
  /\ stopCalls' = e.stopCalls
  /\ skipped' = e.skipped
  /\ startFailed' = e.startFailed
  /\ CommitStream(e.m)
  /\ UNCHANGED <<nextHandle, lateEvents, anyRejected, limits, sent,
                 influxClientShutdown, retryVars, batchVars, shutdownVars,
                 metricsVars>>

\* startMonitoring: docker.getEvents resolved and the listeners are attached
StartMonitoring ==
  /\ eventsStream = "null"
  /\ eventsStream' = "open"
  /\ UNCHANGED <<pendingInfo, stopCalls, stopEvents, eventsSeen, lifecycle,
                 startup, skipped, startFailed>>
  /\ UNCHANGED <<streamVars, influxClientShutdown, retryVars, batchVars,
                 shutdownVars, metricsVars>>

WellFormedStop(payload) ==
  payload.json /\ payload.id # "" /\ payload.status \in StopStatuses

WellFormedStart(payload) ==
  payload.json /\ payload.id # "" /\ payload.status = "start"

\* A 'data' event of the events stream
EventData(payload) ==
  /\ Quiet
  /\ eventsStream = "open"
  /\ eventsSeen < MaxEvents
  /\ LET e1 == onEventData(EventsManager, payload)
     IN /\ CommitEvents(e1)
        /\ ret' = IF e1.stopCalls # stopCalls THEN Returned(e1.m.ok) ELSE ret
  /\ eventsSeen' = eventsSeen + 1
  /\ stopEvents' = IF WellFormedStop(payload)
                   THEN [stopEvents EXCEPT ![payload.id] = @ + 1]
                   ELSE stopEvents
  /\ lifecycle' = IF WellFormedStop(payload)
                  THEN [lifecycle EXCEPT ![payload.id] = Append(@, "stop")]
                  ELSE IF WellFormedStart(payload)
                  THEN [lifecycle EXCEPT ![payload.id] = Append(@, "start")]
                  ELSE lifecycle
  /\ UNCHANGED <<eventsStream, startup>>

\* container.inspect() settled for a start event
InfoSettled(c, outcome) ==
  /\ Quiet
  /\ pendingInfo[c] > 0
  /\ getContainerInfo(outcome) = "returns" => Opened + InFlightStats < MaxHandles
  /\ CommitEvents(onInfoSettled(EventsManager, c, outcome))
  /\ UNCHANGED <<ret, eventsStream, stopEvents, eventsSeen, lifecycle, startup>>

\* container.stats() rejected inside the start callback: logged
StartCallbackFails(c) ==
  /\ Quiet
  /\ pendingStats[c] > 0
  /\ CommitEvents([EventsManager EXCEPT !.m.pendingStats[c] = @ - 1,
                                        !.startFailed = TRUE])
  /\ UNCHANGED <<ret, eventsStream, stopEvents, eventsSeen, lifecycle, startup>>

(***************************************************************************)
(* part_010 main: the listing of the running containers, then the          *)
(* subscription to the daemon's events                                     *)
(***************************************************************************)
\* The orders in which docker.listContainers() may report a set
Listings(S) ==
  {q \in UNION {[1..n -> S] : n \in 0..Cardinality(S)} :
     /\ Len(q) = Cardinality(S)
     /\ \A i, j \in 1..Len(q) : i # j => q[i] # q[j]}

\* validateAccess resolved: main goes on to watchRunningContainers
AccessValidated ==
  /\ startup.pc = "validateAccess"
  /\ startup' = [startup EXCEPT !.pc = "listContainers"]
  /\ UNCHANGED <<streamVars, influxClientShutdown, retryVars, batchVars,
                 shutdownVars, metricsVars, eventsStream, pendingInfo,
                 stopCalls, stopEvents, eventsSeen, lifecycle, skipped,
                 startFailed>>

\* docker.listContainers() resolved inside watchRunningContainers: the
\* daemon answers with the containers running at that moment.
ListContainers ==
  /\ startup.pc = "listContainers"
  /\ \E q \in Listings(startup.running) :
       startup' = [startup EXCEPT !.pc = "watchLoop", !.toWatch = q]
  /\ UNCHANGED <<streamVars, influxClientShutdown, retryVars, batchVars,
                 shutdownVars, metricsVars, eventsStream, pendingInfo,
                 stopCalls, stopEvents, eventsSeen, lifecycle, skipped,
                 startFailed>>

\* One turn of watchRunningContainers' loop: await watchContainer(info.Id),
\* entered when the watchContainer call of the turn before has settled.
WatchNext ==
  /\ Quiet
  /\ startup.pc = "watchLoop"
  /\ startup.toWatch # <<>>
  /\ \A c \in Containers : pendingStats[c] = 0
  /\ startup' = [startup EXCEPT !.toWatch = Tail(@)]
  /\ CommitEvents([EventsManager EXCEPT
                     !.m = watchContainer(Manager, Head(startup.toWatch))])
  /\ UNCHANGED <<ret, eventsStream, stopEvents, eventsSeen, lifecycle>>

\* watchRunningContainers returned: main calls startMonitoring, which
\* awaits docker.getEvents.
WatchLoopDone ==
  /\ startup.pc = "watchLoop"
  /\ startup.toWatch = <<>>
  /\ \A c \in Containers : pendingStats[c] = 0
  /\ startup' = [startup EXCEPT !.pc = "startMonitoring"]
  /\ UNCHANGED <<streamVars, influxClientShutdown, retryVars, batchVars,
                 shutdownVars, metricsVars, eventsStream, pendingInfo,
                 stopCalls, stopEvents, eventsSeen, lifecycle, skipped,
                 startFailed>>

\* docker.getEvents resolved inside main's startMonitoring call
MainStartMonitoring ==
  /\ startup.pc = "startMonitoring"
  /\ StartMonitoring

\* The daemon starts container c.  Its start event goes to the subscribers
\* the daemon has at that moment: it is written to the events stream if
\* getEvents has resolved, and nobody receives it otherwise.
ContainerStarts(c) ==
  /\ c \notin startup.running \cup startup.exited
  /\ startup' = [startup EXCEPT
                  !.running = @ \cup {c},
                  !.events = IF eventsStream = "open"
                             THEN Append(@, [status |-> "start", id |-> c])
                             ELSE @]
  /\ UNCHANGED <<streamVars, influxClientShutdown, retryVars, batchVars,
                 shutdownVars, metricsVars, eventsStream, pendingInfo,
                 stopCalls, stopEvents, eventsSeen, lifecycle, skipped,
                 startFailed>>

\* Container c exits; its die event goes to the subscribers of that moment.
ContainerDies(c) ==
  /\ c \in startup.running
  /\ startup' = [startup EXCEPT
                  !.running = @ \ {c},
                  !.exited = @ \cup {c},
                  !.events = IF eventsStream = "open"
                             THEN Append(@, [status |-> "die", id |-> c])
                             ELSE @]
  /\ UNCHANGED <<streamVars, influxClientShutdown, retryVars, batchVars,
                 shutdownVars, metricsVars, eventsStream, pendingInfo,
                 stopCalls, stopEvents, eventsSeen, lifecycle, skipped,
                 startFailed>>

\* The events stream emits 'data' with the oldest event written to it
DaemonEventArrives ==
  /\ Quiet
  /\ startup.events # <<>>
  /\ LET ev == Head(startup.events)
         payload == [json |-> TRUE, status |-> ev.status, id |-> ev.id]
         e1 == onEventData(EventsManager, payload)
     IN /\ CommitEvents(e1)
        /\ ret' = IF e1.stopCalls # stopCalls THEN Returned(e1.m.ok) ELSE ret
        /\ stopEvents' = IF WellFormedStop(payload)
                         THEN [stopEvents EXCEPT ![ev.id] = @ + 1]
                         ELSE stopEvents
        /\ lifecycle' = [lifecycle EXCEPT ![ev.id] =
                           Append(@, IF ev.status = "start" THEN "start" ELSE "stop")]
  /\ startup' = [startup EXCEPT !.events = Tail(@)]
  /\ eventsSeen' = eventsSeen + 1
  /\ UNCHANGED eventsStream

(***************************************************************************)
(* validation.mjs, stats-parser.mjs: a raw sample becomes a ParsedStats;   *)
(* transformer.mjs, handler.mjs: a ParsedStats becomes a Point             *)
(***************************************************************************)
\* A property the sample does not carry (JavaScript's undefined).  Every
\* number of a sample is non-negative.
Undefined == -1

\* JavaScript's a || b for a number a
OrElse(a, b) == IF a = Undefined \/ a = 0 THEN b ELSE a

\* The raw samples: cpu_stats.cpu_usage.total_usage, precpu_stats.cpu_usage
\* .total_usage, cpu_stats.system_cpu_usage, precpu_stats.system_cpu_usage,
\* cpu_stats.online_cpus, memory_stats.usage, .limit and .max_usage, the
\* interfaces of networks with their rx_bytes and tx_bytes, and read.
RawSamples ==
  [total : {0, 200, 300}, pretotal : {0, 100, 300},
   system : {3000}, presystem : {2000, 3000},
   online : {Undefined, 1, 2},
   usage : {0, 5}, limit : {9}, max_usage : {Undefined, 7},
   networks : {<<>>, <<[rx_bytes |-> 1, tx_bytes |-> 2]>>},
   read : {1}]

validateStats(stats) ==
  /\ stats.read # Undefined /\ stats.read # 0
  /\ stats.total # Undefined /\ stats.total # 0
  /\ stats.system # Undefined /\ stats.system # 0
  /\ stats.usage # Undefined
  /\ stats.limit # Undefined
  /\ stats.pretotal # Undefined

\* calculateCpuPercent without its test of the previous total_usage
calculateCpuPercentFirstSample(stats) ==
  LET cpuDelta == stats.total - OrElse(stats.pretotal, 0)
      sysDelta == stats.system - OrElse(stats.presystem, 0)
  IN IF sysDelta > 0 /\ cpuDelta > 0
     THEN LET onlineCPUs == OrElse(stats.online, 1)
          IN (cpuDelta * onlineCPUs * 100) \div sysDelta
     ELSE 0

\* (cpuDelta / sysDelta) * onlineCPUs * 100 is computed as the exact
\* quotient (cpuDelta * onlineCPUs * 100) / sysDelta: every sample of
\* RawSamples makes it a whole number.
calculateCpuPercent(stats) ==
  LET cpuDelta == stats.total - OrElse(stats.pretotal, 0)
      sysDelta == stats.system - OrElse(stats.presystem, 0)
  IN IF sysDelta > 0 /\ cpuDelta > 0 /\ stats.pretotal > 0
     THEN LET onlineCPUs == OrElse(stats.online, 1)
          IN (cpuDelta * onlineCPUs * 100) \div sysDelta
     ELSE 0

RECURSIVE SumOver(_, _)
SumOver(networks, key) ==
  IF networks = <<>> THEN 0
  ELSE OrElse(Head(networks)[key], 0) + SumOver(Tail(networks), key)

calculateNetworkUsage(stats) ==
  [netIn |-> SumOver(stats.networks, "rx_bytes"),
   netOut |-> SumOver(stats.networks, "tx_bytes")]

getValidTimestamp(stats) == stats.read

\* The names extractAllFields can give a value: those of the summary, and of
\* the extended fields cpu_total_usage, cpu_system_usage, cpu_online, mem_max,
\* read_time and the two byte counters of the first interface.
FieldNames ==
  {"cpu_percent", "cpu_total_usage", "cpu_system_usage", "cpu_online",
   "mem_used", "mem_total", "mem_max", "net_in_bytes", "net_out_bytes",
   "net_eth0_in_bytes", "net_eth0_out_bytes", "read_time"}

\* The object the extract* functions build, before the invalid values are
\* deleted from it
extracted(stats) ==
  [cpu_percent |-> calculateCpuPercent(stats),
   cpu_total_usage |-> stats.total,
   cpu_system_usage |-> stats.system,
   cpu_online |-> OrElse(stats.online, 1),
   mem_used |-> OrElse(stats.usage, 0),
   mem_total |-> OrElse(stats.limit, 0),
   mem_max |-> stats.max_usage,
   net_in_bytes |-> calculateNetworkUsage(stats).netIn,
   net_out_bytes |-> calculateNetworkUsage(stats).netOut,
   net_eth0_in_bytes |-> IF stats.networks = <<>> THEN Undefined
                         ELSE OrElse(stats.networks[1].rx_bytes, 0),
   net_eth0_out_bytes |-> IF stats.networks = <<>> THEN Undefined
                          ELSE OrElse(stats.networks[1].tx_bytes, 0),
   read_time |-> stats.read]

extractAllFields(stats) ==
  LET allFields == extracted(stats) IN
  [key \in {k \in FieldNames : allFields[k] # Undefined} |-> allFields[key]]

ESSENTIAL_FIELDS ==
  <<"cpu_percent", "mem_used", "mem_total", "net_in_bytes", "net_out_bytes">>

\* The values of STATS_FIELDS: unset, the keyword in either case, and a list
\* naming a summary field, an extended field and a field nothing produces.
StatsFieldsValues == {"", "ESSENTIAL", "essential", "cpu_percent,mem_max,bogus"}

parseStatsFields(STATS_FIELDS) ==
  IF STATS_FIELDS = "" THEN <<>>
  ELSE IF STATS_FIELDS \in {"ESSENTIAL", "essential"} THEN ESSENTIAL_FIELDS
  ELSE <<"cpu_percent", "mem_max", "bogus">>

\* filterFields returning whatever was extracted
filterFieldsKeepsAll(fields, configFields) == fields

filterFields(fields, configFields) ==
  IF Len(configFields) = 0 THEN fields
  ELSE [field \in {configFields[i] : i \in 1..Len(configFields)} \cap DOMAIN fields
          |-> fields[field]]

\* parseStats of validation.mjs: {...fields, timestamp}
parseStats(stats) ==
  LET fields == filterFields(extractAllFields(stats), statsFields) IN
  [key \in DOMAIN fields \cup {"timestamp"} |->
     IF key = "timestamp" THEN getValidTimestamp(stats) ELSE fields[key]]

\* parseStats of stats-parser.mjs: the summary under its camel-case names
parseStatsSummary(stats) ==
  [cpuPercent |-> calculateCpuPercent(stats),
   memUsed |-> OrElse(stats.usage, 0),
   memTotal |-> OrElse(stats.limit, 0),
   netIn |-> calculateNetworkUsage(stats).netIn,
   netOut |-> calculateNetworkUsage(stats).netOut,
   timestamp |-> stats.read]

\* stats.name for a ParsedStats object
Prop(stats, name) == IF name \in DOMAIN stats THEN stats[name] ELSE Undefined

transformStatsPoints(containerId, containerName, stats) ==
  <<[measurement |-> "docker_stats",
     tags |-> [container_id |-> containerId, container_name |-> containerName],
     fields |-> [cpu_percent |-> Prop(stats, "cpuPercent"),
                 mem_used |-> Prop(stats, "memUsed"),
                 mem_total |-> Prop(stats, "memTotal"),
                 net_in_bytes |-> Prop(stats, "netIn"),
                 net_out_bytes |-> Prop(stats, "netOut")],
     timestamp |-> Prop(stats, "timestamp")]>>

validatePoints(points) ==
  /\ Len(points) # 0
  /\ \A i \in 1..Len(points) :
       /\ points[i].timestamp # Undefined
       /\ \A field \in {ESSENTIAL_FIELDS[j] : j \in 1..Len(ESSENTIAL_FIELDS)} :
            points[i].fields[field] # Undefined

\* handleStats of handler.mjs: the points, whether it threw, and how often
\* it called metricsBatcher.add
handleStatsPoints(containerId, containerName, stats) ==
  LET points == transformStatsPoints(containerId, containerName, stats) IN
  IF ~validatePoints(points)
  THEN [stage |-> "handled", points |-> points, threw |-> TRUE, adds |-> 0]
  ELSE [stage |-> "handled", points |-> points, threw |-> FALSE, adds |-> 1]

MetricsUnchanged ==
  UNCHANGED <<streamVars, influxClientShutdown, retryVars, batchVars,
              shutdownVars, eventsVars>>

\* parseLine of validation.mjs on one line of the stream
ParseLine ==
  /\ handled.stage = "raw"
  /\ IF validateStats(rawStats)
     THEN /\ parsedStats' = parseStats(rawStats)
          /\ handled' = [handled EXCEPT !.stage = "parsed"]
     ELSE /\ parsedStats' = parsedStats
          /\ handled' = [handled EXCEPT !.stage = "null"]
  /\ UNCHANGED <<rawStats, statsFields>>
  /\ MetricsUnchanged

\* parseLine of stats-parser.mjs on one line of the stream
ParseLineSummary ==
  /\ handled.stage = "raw"
  /\ IF validateStats(rawStats)
     THEN /\ parsedStats' = parseStatsSummary(rawStats)
          /\ handled' = [handled EXCEPT !.stage = "parsed"]
     ELSE /\ parsedStats' = parsedStats
          /\ handled' = [handled EXCEPT !.stage = "null"]
  /\ UNCHANGED <<rawStats, statsFields>>
  /\ MetricsUnchanged

\* The onStats callback: metricsHandler.handleStats(id, name, stats)
HandleParsedStats(c) ==
  /\ handled.stage = "parsed"
  /\ handled' = handleStatsPoints(c, c, parsedStats)
  /\ UNCHANGED <<rawStats, statsFields, parsedStats>>
  /\ MetricsUnchanged

MetricsIdle ==
  /\ rawStats = "none"
  /\ statsFields = <<>>
  /\ parsedStats = "none"
  /\ handled = "none"

EventsIdle ==
  /\ startup = [pc |-> "validateAccess", toWatch |-> <<>>, running |-> {},
                exited |-> {}, events |-> <<>>]
  /\ eventsStream = "null"
  /\ pendingInfo = [c \in Containers |-> 0]
  /\ stopCalls = [c \in Containers |-> 0]
  /\ stopEvents = [c \in Containers |-> 0]
  /\ eventsSeen = 0
  /\ lifecycle = [c \in Containers |-> <<>>]
  /\ skipped = FALSE
  /\ startFailed = FALSE

ShutdownIdle ==
  /\ handlers = {}
  /\ isShuttingDown = FALSE
  /\ timeout = MaxTimeout
  /\ hs = [n \in Names |-> "idle"]
  /\ timers = [n \in Names |-> NoTimer]
  /\ armed = 0
  /\ elapsed = 0
  /\ exited = FALSE
  /\ started = [n \in Names |-> 0]
  /\ runs = 0
  /\ ignored = FALSE
  /\ refused = {}

(***************************************************************************)
(* The specifications: one per component, the others at rest.              *)
(***************************************************************************)
StreamInit ==
  /\ streams = [c \in Containers |-> NoHandle]
  /\ info = [h \in Handles |-> [buffer |-> <<>>, consecutiveErrors |-> 0,
                                state |-> "none"]]
  /\ handle = [h \in Handles |-> [status |-> "unopened", wired |-> FALSE,
                                  cid |-> "none"]]
  /\ microtasks = <<>>
  /\ containerWatcherShutdown = FALSE
  /\ pendingStats = [c \in Containers |-> 0]
  /\ pendingInspect = [c \in Containers |-> 0]
  /\ nextHandle = 1
  /\ cleanup = [h \in Handles |-> [destroys |-> 0, deletes |-> 0, ends |-> 0]]
  /\ trans = {}
  /\ failRun = [c \in Containers |-> 0]
  /\ lastFired = -1
  /\ anyRejected = FALSE
  /\ ret = "none"
  /\ unread = -1

\* The limits the streams run under unless a specification draws them
StatsLimits == [maxLineSize |-> MaxLineSize, maxBufferSize |-> MaxBufferSize]

StreamIdle ==
  /\ StreamInit
  /\ lateEvents = FALSE
  /\ limits = StatsLimits
  /\ sent = 0

InitStream ==
  /\ StreamInit
  /\ lateEvents \in BOOLEAN
  /\ limits = StatsLimits
  /\ sent = 0
  /\ influxClientShutdown = FALSE
  /\ RetryIdle
  /\ BatchIdle
  /\ ShutdownIdle
  /\ EventsIdle
  /\ MetricsIdle

Outcomes == {"running", "notRunning", "notFound"}

\* Two containers, one record per chunk: the lifecycle of the streams.
NextStream ==
  \/ \E c \in Containers : WatchContainer(c)
  \/ \E c \in Containers : StatsOpened(c)
  \/ \E c \in Containers : StatsFailed(c)
  \/ \E c \in Containers : UnwatchContainer(c)
  \/ \E c \in Containers, r \in Outcomes : InspectDone(c, r)
  \/ WatcherShutdown
  \/ \E h \in Handles, chunk \in LineChunks : StreamData(h, chunk)
  \/ \E h \in Handles : StreamEnd(h)
  \/ \E h \in Handles : StreamError(h)
  \/ \E f \in BOOLEAN : StatsSettled(f)

SpecStream == InitStream /\ [][NextStream]_vars

\* The lifecycle of the streams when the calls inside removeStream's try
\* block may throw.
NextUnwind ==
  \/ \E c \in Containers : WatchContainer(c)
  \/ \E c \in Containers : StatsOpened(c)
  \/ \E c \in Containers : UnwatchContainer(c)
  \/ \E c \in Containers, at \in ThrowPoints : UnwatchThrows(c, at)
  \/ \E c \in Containers, r \in Outcomes : InspectDone(c, r)

SpecUnwind == InitStream /\ [][NextUnwind]_vars

\* One container, chunks of any content: the handling of the data.
OneContainer == {"c1"}

NextData ==
  \/ \E c \in OneContainer : WatchContainer(c)
  \/ \E c \in OneContainer : StatsOpened(c)
  \/ \E c \in OneContainer : StatsFailed(c)
  \/ \E c \in OneContainer : UnwatchContainer(c)
  \/ \E c \in OneContainer, r \in Outcomes : InspectDone(c, r)
  \/ WatcherShutdown
  \/ \E h \in Handles, chunk \in Chunks : StreamData(h, chunk)
  \/ \E h \in Handles : StreamEnd(h)
  \/ \E h \in Handles : StreamError(h)
  \/ \E f \in BOOLEAN : StatsSettled(f)

SpecData == InitStream /\ [][NextData]_vars

\* One container watched once: any later stream is a restart.
WatchOnce(c) ==
  /\ nextHandle = 1
  /\ pendingStats[c] = 0
  /\ WatchContainer(c)

NextRestart ==
  \/ \E c \in OneContainer : WatchOnce(c)
  \/ \E c \in OneContainer : StatsOpened(c)
  \/ \E c \in OneContainer : StatsFailed(c)
  \/ \E c \in OneContainer : UnwatchContainer(c)
  \/ \E c \in OneContainer, r \in Outcomes : InspectDone(c, r)
  \/ WatcherShutdown
  \/ \E h \in Handles, chunk \in LineChunks : StreamData(h, chunk)
  \/ \E h \in Handles : StreamEnd(h)
  \/ \E h \in Handles : StreamError(h)
  \/ \E f \in BOOLEAN : StatsSettled(f)

SpecRestart == InitStream /\ [][NextRestart]_vars

\* One stream, open and active, under any limits: the buffer of a stream.
Limits == [maxLineSize : 1..MaxBufferSize, maxBufferSize : 1..MaxBufferSize]

InitBuffer ==
  /\ streams = [c \in Containers |-> IF c = "c1" THEN 1 ELSE NoHandle]
  /\ info = [h \in Handles |->
               [buffer |-> <<>>, consecutiveErrors |-> 0,
                state |-> IF h = 1 THEN "active" ELSE "none"]]
  /\ handle = [h \in Handles |->
                 IF h = 1 THEN [status |-> "open", wired |-> TRUE, cid |-> "c1"]
                 ELSE [status |-> "unopened", wired |-> FALSE, cid |-> "none"]]
  /\ microtasks = <<>>
  /\ containerWatcherShutdown = FALSE
  /\ pendingStats = [c \in Containers |-> 0]
  /\ pendingInspect = [c \in Containers |-> 0]
  /\ nextHandle = 2
  /\ lateEvents = FALSE
  /\ cleanup = [h \in Handles |-> [destroys |-> 0, deletes |-> 0, ends |-> 0]]
  /\ trans = {<<"starting", "active">>}
  /\ failRun = [c \in Containers |-> 0]
  /\ lastFired = -1
  /\ anyRejected = FALSE
  /\ ret = "none"
  /\ unread = -1
  /\ limits \in Limits
  /\ sent = 0
  /\ influxClientShutdown = FALSE
  /\ RetryIdle
  /\ BatchIdle
  /\ ShutdownIdle
  /\ EventsIdle
  /\ MetricsIdle

NextBuffer ==
  \/ \E chunk \in Chunks : StreamData(1, chunk)
  \/ \E f \in BOOLEAN : StatsSettled(f)

SpecBuffer == InitBuffer /\ [][NextBuffer]_vars

\* The events manager wired to the container watcher as main wires them.
InitEvents ==
  /\ StreamIdle
  /\ influxClientShutdown = FALSE
  /\ RetryIdle
  /\ BatchIdle
  /\ ShutdownIdle
  /\ EventsIdle
  /\ MetricsIdle

NextEvents ==
  \/ StartMonitoring
  \/ \E payload \in Payloads : EventData(payload)
  \/ \E c \in Containers, outcome \in InfoOutcomes : InfoSettled(c, outcome)
  \/ \E c \in Containers : StatsOpened(c)
  \/ \E c \in Containers : StartCallbackFails(c)

SpecEvents == InitEvents /\ [][NextEvents]_vars

\* The startup of main while the daemon starts containers and containers
\* exit: the inspection and the stats request of a start event succeed.
InitStartup ==
  /\ StreamIdle
  /\ influxClientShutdown = FALSE
  /\ RetryIdle
  /\ BatchIdle
  /\ ShutdownIdle
  /\ MetricsIdle
  /\ startup \in [pc : {"validateAccess"}, toWatch : {<<>>},
                  running : SUBSET Containers, exited : {{}}, events : {<<>>}]
  /\ eventsStream = "null"
  /\ pendingInfo = [c \in Containers |-> 0]
  /\ stopCalls = [c \in Containers |-> 0]
  /\ stopEvents = [c \in Containers |-> 0]
  /\ eventsSeen = 0
  /\ lifecycle = [c \in Containers |-> <<>>]
  /\ skipped = FALSE
  /\ startFailed = FALSE

NextStartup ==
  \/ AccessValidated
  \/ ListContainers
  \/ WatchNext
  \/ WatchLoopDone
  \/ MainStartMonitoring
  \/ \E c \in Containers : ContainerStarts(c)
  \/ \E c \in Containers : ContainerDies(c)
  \/ DaemonEventArrives
  \/ \E c \in Containers : InfoSettled(c, "named")
  \/ \E c \in Containers : StatsOpened(c)

\* main's awaits resolve, and so do the inspections and the stats requests
SpecStartup ==
  /\ InitStartup
  /\ [][NextStartup]_vars
  /\ WF_vars(AccessValidated)
  /\ WF_vars(ListContainers)
  /\ WF_vars(WatchNext)
  /\ WF_vars(WatchLoopDone)
  /\ WF_vars(MainStartMonitoring)
  /\ WF_vars(DaemonEventArrives)
  /\ \A c \in Containers : WF_vars(InfoSettled(c, "named"))
  /\ \A c \in Containers : WF_vars(StatsOpened(c))

\* One line of a stats stream from JSON.parse to the batcher, under any
\* setting of STATS_FIELDS.
InitMetrics ==
  /\ rawStats \in RawSamples
  /\ \E v \in StatsFieldsValues : statsFields = parseStatsFields(v)
  /\ parsedStats = [key \in {} |-> 0]
  /\ handled = [stage |-> "raw", points |-> <<>>, threw |-> FALSE, adds |-> 0]
  /\ StreamIdle
  /\ influxClientShutdown = FALSE
  /\ RetryIdle
  /\ BatchIdle
  /\ ShutdownIdle
  /\ EventsIdle

NextMetrics ==
  \/ ParseLine
  \/ ParseLineSummary
  \/ \E c \in Containers : HandleParsedStats(c)

SpecMetrics == InitMetrics /\ [][NextMetrics]_vars

\* The same stream fed with text that has blanks in it: records, blanks and
\* newlines in any arrangement.
SpacedChunks == UNION {[1..k -> {"g", SP, NL}] : k \in 1..MaxChunkLen}

NextLines ==
  \/ \E chunk \in SpacedChunks : StreamData(1, chunk)
  \/ \E f \in BOOLEAN : StatsSettled(f)

SpecLines == InitBuffer /\ [][NextLines]_vars

\* One call of the retrying client at a time, under any retry policy.
InitRetry ==
  /\ \E n \in 1..MaxPolicyRetries : options = [DEFAULT_RETRY_OPTIONS EXCEPT !.maxRetries = n]
  /\ rpc = "idle"
  /\ attempt = 0
  /\ lastError = NoError
  /\ delay = 0
  /\ invocations = 0
  /\ sleeps = 0
  /\ uniform = "none"
  /\ influxClientShutdown = FALSE
  /\ StreamIdle
  /\ BatchIdle
  /\ ShutdownIdle
  /\ EventsIdle
  /\ MetricsIdle

NextRetry ==
  \/ InfluxCall
  \/ OperationResolves
  \/ \E e \in Messages, j \in Jitters : OperationRejects(e, j)
  \/ SleepElapsed
  \/ InfluxClose

SpecRetry == InitRetry /\ [][NextRetry]_vars

InitBatch ==
  /\ BatchIdle
  /\ influxClientShutdown = FALSE
  /\ StreamIdle
  /\ RetryIdle
  /\ ShutdownIdle
  /\ EventsIdle
  /\ MetricsIdle

NextBatch ==
  \/ \E n \in 1..MaxAddLen : HandleStats(n)
  \/ FlushTimerFires
  \/ BatchTick
  \/ \E p \in Points : WriteResolves(p)
  \/ \E p \in Points : WriteRejects(p)
  \/ \E p \in Points : RetryDelayElapsed(p)
  \/ MetricsShutdown

SpecBatch == InitBatch /\ [][NextBatch]_vars

\* The batcher while the sink rejects every write
NextOutage ==
  \/ \E n \in 1..MaxAddLen : HandleStatsOutage(n)
  \/ FlushTimerFires
  \/ BatchTick
  \/ \E p \in 1..MaxOutagePoints : WriteRejects(p)
  \/ \E p \in 1..MaxOutagePoints : RetryDelayElapsed(p)

SpecOutage == InitBatch /\ [][NextOutage]_vars

\* What Docker writes to the stats stream: the records 1, 2, ... one per
\* line; a chunk is any next piece of it.
RECURSIVE TapeOf(_)
TapeOf(n) == IF n = 0 THEN <<>> ELSE TapeOf(n - 1) \o <<Digits[n], NL>>
Tape == TapeOf(MaxPoints)

\* The 'data' listener for the next k characters of the tape, with the
\* onStats callback of index (part_010:41) that each record reaches.
StreamDataQueued(h, k) ==
  /\ Quiet
  /\ Emits(h)
  /\ sent + k <= Len(Tape)
  /\ LET chunk == SubSeq(Tape, sent + 1, sent + k)
         m1 == onData(Manager, handle[h].cid, chunk)
         b1 == onStatsEach(Batcher, m1.delivered)
     IN /\ CommitStream(m1)
        /\ CommitBatcher(b1)
  /\ sent' = sent + k
  /\ UNCHANGED <<nextHandle, lateEvents, anyRejected, ret, limits, nextPoint,
                 sinkFailed, retryVars, shutdownVars, eventsVars, metricsVars>>

\* One stream feeding the batcher: the order of the records.
NextOrder ==
  \/ \E c \in OneContainer : WatchOnce(c)
  \/ \E c \in OneContainer : StatsOpened(c)
  \/ \E h \in Handles, k \in 1..MaxChunkLen : StreamDataQueued(h, k)
  \/ StatsSettled(TRUE)
  \/ FlushTimerFires
  \/ BatchTick
  \/ \E p \in Points : WriteResolves(p)
  \/ \E p \in Points : WriteRejects(p)
  \/ \E p \in Points : RetryDelayElapsed(p)

SpecOrder == InitBatch /\ [][NextOrder]_vars

InitShutdown ==
  /\ handlers = {}
  /\ isShuttingDown = FALSE
  /\ timeout \in Timeouts
  /\ hs = [n \in Names |-> "idle"]
  /\ timers = [n \in Names |-> NoTimer]
  /\ armed = 0
  /\ elapsed = 0
  /\ exited = FALSE
  /\ started = [n \in Names |-> 0]
  /\ runs = 0
  /\ ignored = FALSE
  /\ refused = {}
  /\ influxClientShutdown = FALSE
  /\ StreamIdle
  /\ RetryIdle
  /\ BatchIdle
  /\ EventsIdle
  /\ MetricsIdle

NextShutdown ==
  \/ \E n \in Names : Register(n)
  \/ \E v \in Timeouts : SetTimeout(v)
  \/ \E sig \in Signals, t \in SUBSET Names : Trigger(sig, t)
  \/ \E n \in Names : HandlerResolves(n)
  \/ \E n \in Names : HandlerRejects(n)
  \/ \E n \in Names : TimerFires(n)
  \/ Exit
  \/ ShutdownTick

\* Time passes, due timers fire and the exit runs: the event loop is live.
SpecShutdown ==
  /\ InitShutdown
  /\ [][NextShutdown]_vars
  /\ WF_vars(ShutdownTick)
  /\ WF_vars(\E n \in Names : TimerFires(n))
  /\ WF_vars(Exit)

(***************************************************************************)
(* Properties of the stream manager and the container watcher              *)
(***************************************************************************)
Registered(h) == \E c \in Containers : streams[c] = h

removeStreamCalled(c) ==
  \/ UnwatchContainer(c)
  \/ \E h \in Handles : handle[h].cid = c /\ (StreamEnd(h) \/ StreamError(h))

\* C1: every registered stream is cleaned up exactly once whichever teardown
\* trigger fires first (end, error, error threshold, removeStream,
\* removeAllStreams): while it is in the map nothing of it has been cleaned
\* up, and once it has left the map its handle has been destroyed once, its
\* entry deleted once and onStreamEnd called once, never more; a removal
\* call for an id that has no entry returns false and changes nothing.
C1_CleanedOnce ==
  \A h \in Handles :
    /\ cleanup[h].destroys <= 1 /\ cleanup[h].deletes <= 1 /\ cleanup[h].ends <= 1
    /\ handle[h].wired =>
         IF Registered(h)
         THEN cleanup[h] = [destroys |-> 0, deletes |-> 0, ends |-> 0]
         ELSE cleanup[h] = [destroys |-> 1, deletes |-> 1, ends |-> 1]

C1_FurtherRemovalIsNoOp ==
  \A c \in Containers :
    (streams[c] = NoHandle /\ removeStreamCalled(c)) =>
      /\ ret' = Returned(FALSE)
      /\ UNCHANGED <<streams, info, handle, microtasks, pendingStats,
                     pendingInspect, cleanup, trans>>

StreamStates == {"starting", "active", "stopping", "stopped"}

LegalTransitions ==
  {<<"starting", "active">>, <<"starting", "stopped">>, <<"active", "stopping">>,
   <<"active", "stopped">>, <<"stopping", "stopped">>}

\* A manager whose map holds one StreamInfo, for container c, in state s.
ManagerWith(c, s) ==
  [Manager EXCEPT !.streams = [x \in Containers |-> IF x = c THEN 1 ELSE NoHandle],
                  !.info[1] = [buffer |-> <<>>, consecutiveErrors |-> 0, state |-> s]]

\* C2: the state of a StreamInfo changes only along the five legal
\* transitions; any other requested transition returns false and leaves the
\* state as it was, and nothing leaves 'stopped'.
C2_OnlyLegalTransitions ==
  /\ trans \subseteq LegalTransitions
  /\ \A c \in Containers, s \in StreamStates, n \in StreamStates :
       LET m == ManagerWith(c, s)
           r == transitionStreamState(m, c, n)
       IN IF <<s, n>> \in LegalTransitions
          THEN r.ok /\ r.info[1].state = n
          ELSE ~r.ok /\ r.info = m.info /\ r.streams = m.streams
  /\ \A h \in Handles : ~Registered(h) /\ handle[h].wired => info[h].state = "stopped"

\* C2 witness: a stream went starting -> active -> stopping -> stopped.
C2_Witness ==
  /\ trans = {<<"starting", "active">>, <<"active", "stopping">>,
              <<"stopping", "stopped">>}
  /\ \E h \in Handles : info[h].state = "stopped"

\* C3: the error-threshold teardown fires only after 3 lines in a row failed
\* to parse, a valid line in between having reset the counter before the next
\* line was examined (and no stats callback having failed).
C3_ThresholdOnlyAfterThreeFailures ==
  (lastFired # -1 /\ ~anyRejected) => lastFired >= MAX_CONSECUTIVE_ERRORS

\* C7: once the watcher's shutdown() has been called no stream is in the live
\* map, whatever watchContainer calls or restart checks were in flight.
C7_NoStreamAfterShutdown ==
  containerWatcherShutdown => \A c \in Containers : streams[c] = NoHandle

(***************************************************************************)
(* Properties of the retrying client                                       *)
(***************************************************************************)
patternBound(fragment) ==
  LET i == CHOOSE k \in 1..Len(RETRYABLE_ERROR_PATTERNS) :
             fragment \in RETRYABLE_ERROR_PATTERNS[k].pattern
  IN RETRYABLE_ERROR_PATTERNS[i].maxAttempts

\* C5: a call that kept failing with connection refused (or with a connect
\* timeout) surfaces the error only when the operation has been attempted as
\* often as the bound of its pattern says, 10 times (5 times), whatever
\* maxRetries is.
C5_RetriedToPatternBound ==
  (rpc = "rejected" /\ uniform \in {"ECONNREFUSED", "connect ETIMEDOUT"}) =>
    invocations = patternBound(uniform)

\* C6: an error matching a fatal pattern ends the call at once: the call is
\* rejected with it, the operation is not invoked again and no backoff is
\* slept after it; a call whose first error is fatal has invoked the
\* operation exactly once and slept no backoff at all.
C6_FatalNotRetried ==
  kind(lastError) = "fatal" =>
    /\ rpc = "rejected"
    /\ invocations = attempt
    /\ sleeps = attempt - 1
    /\ delay = 0
    /\ uniform = "fatal" => (invocations = 1 /\ sleeps = 0)

\* C6 witness: under a policy that allows retries a call was rejected with a
\* fatal error after one invocation.
C6_Witness ==
  /\ options.maxRetries > 1
  /\ rpc = "rejected"
  /\ uniform = "fatal"
  /\ invocations = 1
  /\ sleeps = 0

(***************************************************************************)
(* Properties of the metrics batcher                                       *)
(***************************************************************************)
Accepted == 1..(nextPoint - 1)
Pending == elems(batch)
InFlight == UNION {elems(f.points) : f \in flights}

C4_Accounted ==
  ~isShutdown => \A p \in Accepted : p \in Pending \/ p \in InFlight \/ p \in written

C4_Requeued ==
  \A p \in Points :
    (/\ ~isShutdown
     /\ WriteRejects(p)
     /\ FlightOf(p).attempt = config.maxRetries - 1) =>
      /\ batch' = batch \o FlightOf(p).points
      /\ flushTimeout' # NoTimer
      /\ FlightOf(p) \notin flights'

\* C4: while the batcher is not shut down every accepted point is pending,
\* part of a flush in flight or written; when the last attempt of a flush
\* fails its points are appended to the pending batch again and a flush
\* timer is pending afterwards.
C4_NoSilentDrop == [](C4_Accounted) /\ [][C4_Requeued]_vars

\* C4 witness: a flush failed for good, its points are pending again and a
\* flush is scheduled.
C4_Witness ==
  /\ ~isShutdown
  /\ lastOutcome = "requeued"
  /\ batch # <<>>
  /\ flushTimeout # NoTimer
  /\ Accepted = Pending \cup InFlight \cup written

\* C8: when the metrics handler's shutdown has resolved and the sink refused
\* no write, every point the batcher accepted has been written.
C8_ShutdownLosesNoData ==
  (mhPc = "resolved" /\ ~sinkFailed) => Accepted \subseteq written

(***************************************************************************)
(* Properties of the graceful shutdown manager                             *)
(***************************************************************************)
C9_WithinTimeout == isShuttingDown => elapsed <= armed

\* C9: from the moment the shutdown sequence begins the process exits, and
\* no later than the configured timeout afterwards, whether the handlers
\* resolve, reject, throw or never settle.
C9_ExitsWithinTimeout == [](C9_WithinTimeout) /\ (isShuttingDown ~> exited)

\* C9 witness: the process exited, at the timeout, with a handler that had
\* not settled.
C9_Witness ==
  /\ exited
  /\ elapsed = armed
  /\ \E n \in handlers : hs[n] = "timedOut"

C10_StartedOnce == runs <= 1 /\ \A n \in Names : started[n] <= 1

C10_LaterTriggerIsNoOp ==
  (isShuttingDown /\ \E sig \in Signals, t \in SUBSET Names : Trigger(sig, t)) =>
    UNCHANGED <<handlers, isShuttingDown, timeout, hs, timers, armed, elapsed,
                exited, started, runs>>

\* C10: whatever triggers arrive, the shutdown sequence begins at most once
\* and calls each handler at most once; a trigger that finds a shutdown in
\* progress changes nothing.
C10_SingleFlight == [](C10_StartedOnce) /\ [][C10_LaterTriggerIsNoOp]_vars

\* C10 witness: a trigger arrived during the shutdown, and the process
\* exited with every handler called once.
C10_Witness ==
  /\ ignored
  /\ exited
  /\ handlers # {}
  /\ \A n \in handlers : started[n] = 1

\* C11: once the shutdown sequence has begun every registered handler has
\* been called, whichever of them threw, rejected or timed out; a handler
\* that is still running can run to completion; and the process has exited
\* only with every handler completed, failed or timed out.
C11_AllHandlersRunAndSettle ==
  /\ isShuttingDown =>
        \A n \in handlers : started[n] = 1 /\ hs[n] # "idle"
  /\ \A n \in handlers :
        (hs[n] = "running" /\ ~exited) => ENABLED HandlerResolves(n)
  /\ exited =>
        \A n \in handlers : hs[n] \in {"completed", "failed", "timedOut"}

\* C11 witness: the process exited after one handler had failed, one had
\* timed out and one had completed.
C11_Witness ==
  /\ exited
  /\ \E a, b, c \in handlers :
        hs[a] = "failed" /\ hs[b] = "timedOut" /\ hs[c] = "completed"

(***************************************************************************)
(* Properties of the batcher's flush triggers                              *)
(***************************************************************************)
\* The flush of the points ps as it is while its first write is pending
FirstWrite(ps, awaited) ==
  [points |-> ps, attempt |-> 0, phase |-> "write", awaited |-> awaited]

\* C12: from an empty batcher, with no flush timer having fired and the sink
\* refusing nothing: below maxSize accepted points nothing has been flushed,
\* and with exactly maxSize points accepted there has been exactly one
\* flush, one write holding all maxSize points in order, the batch is empty
\* and no timer is left.
C12_SizeTriggersOneFlush ==
  (~timerFired /\ ~sinkFailed /\ ~isShutdown) =>
    /\ nextPoint - 1 < config.maxSize =>
          /\ flights = {}
          /\ written = {}
          /\ batch = range(1, nextPoint - 1)
    /\ nextPoint - 1 = config.maxSize =>
          /\ batch = <<>>
          /\ flushTimeout = NoTimer
          /\ \/ flights = {FirstWrite(range(1, config.maxSize), FALSE)} /\ written = {}
             \/ flights = {} /\ written = 1..config.maxSize

\* C12 witness: the maxSize-th point has been added and the one write with
\* all the points is pending, no timer having fired.
C12_Witness ==
  /\ ~timerFired
  /\ ~sinkFailed
  /\ nextPoint - 1 = config.maxSize
  /\ flights = {FirstWrite(range(1, config.maxSize), FALSE)}
  /\ batch = <<>>

C13_OneTimer ==
  /\ liveTimers <= 1
  /\ liveTimers = IF flushTimeout = NoTimer THEN 0 ELSE 1
  /\ flushTimeout <= config.maxWaitMs

C13_OnePoint ==
  (nextPoint = 2 /\ config.maxSize > 1 /\ ~isShutdown /\ ~sinkFailed) =>
    \/ /\ ~timerFired
       /\ batch = <<1>>
       /\ flushTimeout \in 0..config.maxWaitMs
       /\ flights = {}
       /\ written = {}
    \/ /\ timerFired
       /\ batch = <<>>
       /\ flushTimeout = NoTimer
       /\ \/ flights = {FirstWrite(<<1>>, FALSE)} /\ written = {}
          \/ flights = {} /\ written = {1}

C13_ScheduledFor ==
  (flushTimeout = NoTimer /\ flushTimeout' # NoTimer) =>
    flushTimeout' = max(0, config.maxWaitMs - sinceFlush')

\* C13: with one point added to an empty batcher and nothing more, the point
\* waits under a timer of at most maxWaitMs and, the timer having fired, has
\* been flushed once, alone; at most one flush timer is live at any time,
\* and a timer is created for max(0, maxWaitMs - time since the last flush).
C13_TimerTriggersOneFlush ==
  [](C13_OneTimer /\ C13_OnePoint) /\ [][C13_ScheduledFor]_vars

\* C13 witness: the timer fired and the write of the single point is pending.
C13_Witness ==
  /\ timerFired
  /\ nextPoint = 2
  /\ flights = {FirstWrite(<<1>>, FALSE)}
  /\ batch = <<>>
  /\ liveTimers = 0

C14_NothingScheduled ==
  isShutdown =>
    /\ flushTimeout = NoTimer
    /\ liveTimers = 0
    /\ batch = <<>>
    /\ Cardinality({f \in flights : f.awaited}) <= 1

C14_FinalFlush ==
  /\ MetricsShutdown =>
       /\ isShutdown'
       /\ batch' = <<>>
       /\ IF batch # <<>>
          THEN flights' = flights \cup {FirstWrite(batch, TRUE)}
          ELSE flights' = flights
  /\ (isShutdown /\ \E n \in 1..MaxAddLen : HandleStats(n)) =>
       UNCHANGED <<batch, flights, flushTimeout, liveTimers, nextPoint>>

\* C14: the batcher's shutdown() hands every pending point to one final
\* flush, however few they are and whatever time is left on the timer; once
\* it has been called no flush timer is pending or created, the batch stays
\* empty and add() changes nothing.
C14_ShutdownFlushesAndStops ==
  [](C14_NothingScheduled) /\ [][C14_FinalFlush]_vars

\* C14 witness: shutdown flushed a batch below maxSize whose timer was not
\* due, and the flush is pending.
C14_Witness ==
  /\ isShutdown
  /\ mhPc = "awaitFlush"
  /\ \E f \in flights : f.awaited /\ Len(f.points) < config.maxSize
  /\ sinceFlush < config.maxWaitMs

(***************************************************************************)
(* Properties of the stream's buffer and registration                      *)
(***************************************************************************)
\* C15: after any chunk has been processed, whatever its size and content
\* and whatever the limits are, the buffer stored for a stream is no longer
\* than the configured maximum buffer size.
C15_BufferWithinMaximum ==
  \A h \in Handles : Len(info[h].buffer) <= limits.maxBufferSize

\* C15 witness: under a line limit above the buffer limit a stream holds a
\* buffer of exactly the maximum size.
C15_Witness ==
  /\ limits.maxLineSize > limits.maxBufferSize
  /\ \E h \in Handles :
       /\ info[h].state = "active"
       /\ Len(info[h].buffer) = limits.maxBufferSize

\* A StreamInfo is live from its creation until it has stopped.
Live(h) == info[h].state \in {"starting", "active", "stopping"}

\* A handle that addStream wired and nothing has destroyed.
Attached(h) == handle[h].wired /\ handle[h].status = "open"

\* Every live StreamInfo and every attached handle is the one the map holds
\* for its container id.
C16_OnePerContainer ==
  \A h \in Handles :
    (Live(h) \/ Attached(h)) =>
      /\ handle[h].cid \in Containers
      /\ streams[handle[h].cid] = h

\* A stream opened for an id whose StreamInfo is not stopped is refused: the
\* map, every StreamInfo and the registered handle stay as they were, and
\* the new handle is destroyed without listeners.
C16_DuplicateRefused ==
  \A c \in Containers :
    (/\ streams[c] # NoHandle
     /\ info[streams[c]].state # "stopped"
     /\ StatsOpened(c))
    => /\ streams' = streams
       /\ info' = info
       /\ handle'[streams[c]] = handle[streams[c]]
       /\ handle'[nextHandle].status = "destroyed"
       /\ ~handle'[nextHandle].wired

\* C16: addStream returns false and leaves the existing entry untouched
\* when the id already has a StreamInfo that is not stopped, so at any time
\* there is at most one live StreamInfo and one registered handle per id.
C16_OneStreamPerId == []C16_OnePerContainer /\ [][C16_DuplicateRefused]_vars

\* C16 witness: a second stream was opened for an id and refused while the
\* first is still registered and active.
C16_Witness ==
  \E h \in Handles :
    /\ handle[h].status = "destroyed"
    /\ ~handle[h].wired
    /\ cleanup[h].destroys = 1
    /\ streams[handle[h].cid] \notin {NoHandle, h}
    /\ info[streams[handle[h].cid]].state = "active"

\* The stream of handle h ends in this step: removeStream ran to its
\* onStreamEnd notification.
Ended(h) == cleanup'[h].ends = cleanup[h].ends + 1

\* A stream that ends while the watcher is not shut down has its container
\* inspected.
C17_EndInspects ==
  \A h \in Handles :
    (Ended(h) /\ ~containerWatcherShutdown') =>
      pendingInspect'[handle[h].cid] = pendingInspect[handle[h].cid] + 1

\* An inspection that reports the container running asks for a new stream.
C17_RunningRestarts ==
  \A c \in Containers :
    (InspectDone(c, "running") /\ ~containerWatcherShutdown) =>
      pendingStats'[c] = pendingStats[c] + 1

\* An inspection that reports anything else changes nothing but itself.
C17_OtherwiseNothing ==
  \A c \in Containers, r \in Outcomes \ {"running"} :
    InspectDone(c, r) =>
      /\ pendingInspect' = [pendingInspect EXCEPT ![c] = @ - 1]
      /\ UNCHANGED <<streams, info, handle, microtasks,
                     containerWatcherShutdown, pendingStats, nextHandle,
                     lateEvents, cleanup, trans, failRun, lastFired,
                     anyRejected, ret, limits, sent, unread>>

\* A stream is opened only for a request, and with one watch call every
\* request after the first stream comes from an inspection.
C17_OpenedOnRequest ==
  \A c \in Containers :
    (\E h \in Handles : handle[h].status = "unopened" /\ handle'[h].cid = c)
      => (pendingStats[c] > 0 /\ StatsOpened(c))

StepOf(a) ==
  \/ \E h \in Handles :
       /\ handle[h].cid = a
       /\ \/ \E chunk \in LineChunks : StreamData(h, chunk)
          \/ StreamEnd(h)
          \/ StreamError(h)
  \/ UnwatchContainer(a)
  \/ /\ microtasks # <<>>
     /\ handle[Head(microtasks)].cid = a
     /\ \E f \in BOOLEAN : StatsSettled(f)

\* Container b's entry in the map, its StreamInfo and its handle are the same
\* after the step as before.
Untouched(b) ==
  /\ streams'[b] = streams[b]
  /\ streams[b] # NoHandle =>
       /\ info'[streams[b]] = info[streams[b]]
       /\ handle'[streams[b]] = handle[streams[b]]

\* C18: whatever happens on the stream of container a (data, a record that
\* fails to parse, an error, the end, a teardown), the StreamInfo of every
\* other container b keeps its state, buffer, error counter and handle, and
\* stays in the map or out of it as it was.
C18_FaultIsolation ==
  [][\A a \in Containers : \A b \in Containers \ {a} :
       Untouched(b) \/ ~StepOf(a)]_vars

\* C18 witness: the stream of c1 was torn down at the error threshold while
\* the stream of c2 is registered and active.
C18_Witness ==
  /\ lastFired # -1
  /\ \E h \in Handles :
       /\ handle[h].cid = "c1"
       /\ handle[h].status = "destroyed"
       /\ cleanup[h].ends = 1
  /\ streams["c2"] # NoHandle
  /\ info[streams["c2"]].state = "active"

\* C20: once the step that raised a stream's consecutive-error counter has
\* finished (the data listener, or the completion of a stats callback), no
\* StreamInfo in the map has a counter of MAX_CONSECUTIVE_ERRORS or more.
C20_NoLiveStreamAtThreshold ==
  \A c \in Containers :
    streams[c] # NoHandle =>
      info[streams[c]].consecutiveErrors < MAX_CONSECUTIVE_ERRORS

(***************************************************************************)
(* Properties of the order of the records                                  *)
(***************************************************************************)
\* The records whose line is complete in what Docker has delivered.
Arrived == sent \div 2

\* The points pushed to the batch are those of the records that arrived, in
\* the order of their arrival.
C19_QueuedInArrivalOrder == queued = range(1, Arrived)

\* A run of the 'data' listener calls onStats for the records its chunk
\* completed, oldest first.
C19_CallbackInArrivalOrder ==
  \A h \in Handles, k \in 1..MaxChunkLen :
    StreamDataQueued(h, k) =>
      onData(Manager, handle[h].cid, SubSeq(Tape, sent + 1, sent + k)).delivered
        = [i \in 1..((sent + k) \div 2 - Arrived) |-> <<Digits[Arrived + i]>>]

\* C19: within one container's stream the lines are processed strictly in
\* the order of their arrival: the snapshots reach the stats callback, and
\* their points are pushed to the batch, in that order, however the chunks
\* cut the lines.
C19_ProcessedInArrivalOrder ==
  []C19_QueuedInArrivalOrder /\ [][C19_CallbackInArrivalOrder]_vars

\* C19 witness: two records were pushed, one of them completed by a later
\* chunk than the one that began it, and another is waiting in the buffer.
C19_Witness ==
  /\ Len(queued) >= 2
  /\ sent = 2 * Len(queued) + 1
  /\ \E h \in Handles : info[h].state = "active" /\ Len(info[h].buffer) = 1

(***************************************************************************)
(* Properties of the error-threshold teardown                              *)
(***************************************************************************)
\* The lines among the first i that fail to parse, and those that parse.
Failing(lines, i) == Cardinality({j \in 1..i : ~parseLine(lines[j])})
Parsing(lines, i) == Cardinality({j \in 1..i : parseLine(lines[j])})

\* The line at which a counter starting at c reaches the threshold.
TripLine(c, lines) ==
  CHOOSE i \in 1..Len(lines) :
    /\ c + Failing(lines, i) >= MAX_CONSECUTIVE_ERRORS
    /\ \A j \in 1..(i - 1) : c + Failing(lines, j) < MAX_CONSECUTIVE_ERRORS

\* The 'data' listener of container c run on a chunk in the current state.
Handled(c, chunk) == onData(Manager, c, chunk)

\* Whenever a chunk makes the threshold teardown fire, the callback gets the
\* records up to the line that reached the threshold and none after it, the
\* rest of the chunk stays unread, and the stream is destroyed and out of
\* the map.
C21_StopsAtTeardown ==
  \A c \in Containers, chunk \in Chunks :
    LET g == streams[c] IN
    (g # NoHandle /\ Handled(c, chunk).cleanup[g].ends = cleanup[g].ends + 1)
    => LET lines == processBuffer(info[g].buffer, chunk).lines
           i == TripLine(info[g].consecutiveErrors, lines)
           m == Handled(c, chunk)
       IN /\ Len(m.calls) = Parsing(lines, i)
          /\ m.unread = Len(lines) - i
          /\ m.streams[c] = NoHandle
          /\ m.info[g].state = "stopped"
          /\ m.handle[g].status = "destroyed"

\* A chunk that reaches the listener of a container with no entry in the map
\* is neither parsed nor forwarded.
C21_NothingWithoutEntry ==
  \A c \in Containers, chunk \in Chunks :
    streams[c] = NoHandle => Handled(c, chunk) = Manager

\* A destroyed handle stays destroyed.
C21_StaysDestroyed ==
  \A h \in Handles :
    handle[h].status = "destroyed" => handle'[h].status = "destroyed"

C22_NoRetryAfterShutdown == [][isShutdown => flights' \subseteq flights]_vars

(***************************************************************************)
(* Properties of the automatic restart                                     *)
(***************************************************************************)
\* With one watch call, every stream after the first was opened by the
\* restart that follows a stream end.
Restarts == IF Opened = 0 THEN 0 ELSE Opened - 1

\* The restarts the handles of the model leave room for.
RestartCapacity == MaxHandles - 1

\* C23: the automatic restarts of a container's stream are counted and stop
\* at a maximum number of attempts, so a container whose streams keep ending
\* is not restarted as often as there is room for.
C23_RestartsLimited == Restarts < RestartCapacity

\* A sequence that holds no point twice.
NoRepeat(ps) == Cardinality(elems(ps)) = Len(ps)

\* Every point is in one place only: pending, in one flush in flight, or
\* written.
C24_OnePlace ==
  /\ NoRepeat(batch)
  /\ Pending \cap written = {}
  /\ \A f \in flights :
       /\ NoRepeat(f.points)
       /\ elems(f.points) \cap Pending = {}
       /\ elems(f.points) \cap written = {}
       /\ \A g \in flights \ {f} : elems(f.points) \cap elems(g.points) = {}

\* The points of a flush are those it detached, in every attempt.
C24_FlightKeepsItsPoints ==
  \A f \in flights : \A g \in flights' :
    elems(g.points) \cap elems(f.points) # {} => g.points = f.points

\* Points added while flushes are in flight join none of them: the flushes
\* stay as they were and the points are pending or in a flush of their own.
C24_AddedJoinsNoFlight ==
  \A n \in 1..MaxAddLen :
    (HandleStats(n) /\ ~isShutdown) =>
      LET added == elems(range(nextPoint, nextPoint + n - 1)) IN
      /\ flights \subseteq flights'
      /\ \A f \in flights : elems(f.points) \cap added = {}
      /\ added \subseteq elems(batch') \cup
                         UNION {elems(g.points) : g \in flights' \ flights}

\* C24: a point added while a flush is in flight is never part of that
\* flush's write, in any of its attempts; it lands in a later batch and is
\* written at most once, with the points of that batch.
C24_AddedDuringFlush ==
  /\ []C24_OnePlace
  /\ [][C24_FlightKeepsItsPoints /\ C24_AddedJoinsNoFlight]_vars

\* C24 witness: a flush is in a later attempt while a point added after it
\* was detached is pending.
C24_Witness ==
  \E f \in flights :
    /\ f.attempt >= 1
    /\ batch # <<>>
    /\ \A p \in elems(f.points) : \A q \in Pending : p < q

\* C25: a batch whose write the sink refuses with a fatal error is not
\* retried and never sent again.  writeBatch treats every rejection of
\* influx.writePoints alike, so the rejection of a write stands for the
\* fatal one: after it the flush is over and its points are not pending.
C25_FatalNotSentAgain ==
  [][\A p \in Points :
       WriteRejects(p) =>
         /\ \A g \in flights' : g.points # FlightOf(p).points
         /\ elems(FlightOf(p).points) \cap elems(batch') = {}]_vars

(***************************************************************************)
(* Properties of the closed sink client                                    *)
(***************************************************************************)
\* A call made on the closed client has thrown at once, with the underlying
\* client not invoked and nothing slept.
C26_FailsAtOnce ==
  (InfluxCall /\ influxClientShutdown) =>
    /\ rpc' = "threw"
    /\ invocations' = 0
    /\ sleeps' = 0

\* close() changes nothing of a call that is under way, and the call goes on
\* to its next attempt as it would have.
C26_EarlierCallGoesOn ==
  /\ InfluxClose => UNCHANGED retryVars
  /\ (SleepElapsed /\ attempt + 1 <= options.maxRetries) =>
       (rpc' = "calling" /\ invocations' = invocations + 1)

\* A call throws at once only on the closed client.
C26_ThrewOnlyClosed ==
  rpc = "threw" => (influxClientShutdown /\ invocations = 0)

\* C26: a call of the sink client made after close() fails at once and the
\* underlying client is never invoked for it; a call made before close() is
\* not affected by it.
C26_ClosedClientRejects ==
  /\ []C26_ThrewOnlyClosed
  /\ [][C26_FailsAtOnce /\ C26_EarlierCallGoesOn]_vars

\* C26 witness: a call was made on the closed client.
C26_Witness ==
  /\ influxClientShutdown
  /\ rpc = "threw"
  /\ invocations = 0


\* While the shutdown is in progress no step changes the handler registry.
C27_RegistryKept == isShuttingDown => handlers' = handlers

\* A call of register during the shutdown changes nothing of the sequence:
\* no handler is called, no timer created, none of the handlers' positions
\* moves.
C27_RefusedChangesNothing ==
  (isShuttingDown /\ \E n \in Names : Register(n)) =>
    UNCHANGED <<handlers, isShuttingDown, timeout, hs, timers, armed, elapsed,
                exited, started, runs>>

\* A name that was turned away and is not in the registry is never called.
C27_RefusedNeverRuns ==
  \A n \in refused \ handlers : started[n] = 0 /\ hs[n] = "idle"

\* Names are turned away only during the shutdown, and then every handler of
\* the registry has been called.
C27_RegisteredAllRun ==
  /\ refused # {} => isShuttingDown
  /\ isShuttingDown => \A n \in handlers : started[n] = 1

\* C27: register(name, action) called once the shutdown has begun leaves the
\* handler registry unchanged and the rejected action is never executed; all
\* the handlers registered before the shutdown began are executed.
C27_LateRegisterRejected ==
  /\ [](C27_RefusedNeverRuns /\ C27_RegisteredAllRun)
  /\ [][C27_RegistryKept /\ C27_RefusedChangesNothing]_vars

\* C27 witness: a name that was not registered was turned away during the
\* shutdown, and the process exited with every registered handler called.
C27_Witness ==
  /\ refused \ handlers # {}
  /\ handlers # {}
  /\ exited
  /\ \A n \in handlers : started[n] = 1


(***************************************************************************)
(* Properties of processBuffer                                             *)
(***************************************************************************)
\* The buffer and the chunk overflow the maximum buffer size together.
Overflows(buffer, chunk) == Len(buffer) + Len(chunk) > limits.maxBufferSize

\* C28: when the buffer of a stream and the chunk that arrives are together
\* longer than the maximum buffer size, processBuffer works on the chunk
\* alone: its lines and its remaining buffer are those of the chunk after an
\* empty buffer; otherwise they are those of the buffer followed by the chunk.
C28_OverflowDropsOldBuffer ==
  \A h \in Handles : \A chunk \in Chunks :
    info[h].state = "active" =>
      LET buffer == info[h].buffer
          r == processBuffer(buffer, chunk)
          fresh == extractLines(chunk, <<>>)
          joined == extractLines(buffer \o chunk, <<>>)
      IN IF Overflows(buffer, chunk)
         THEN r.lines = fresh.lines /\ Len(r.remainingBuffer) <= Len(fresh.remainingBuffer)
         ELSE r.lines = joined.lines


\* The positions of the newlines of a text, and the k-th of them.
Newlines(text) == {i \in 1..Len(text) : text[i] = NL}
NthNewline(text, k) ==
  CHOOSE p \in Newlines(text) : Cardinality({q \in Newlines(text) : q <= p}) = k

\* The newline-terminated segments of a text, in order, each one trimmed.
Segments(text) ==
  [k \in 1..Cardinality(Newlines(text)) |->
     trim(SubSeq(text,
                 IF k = 1 THEN 1 ELSE NthNewline(text, k - 1) + 1,
                 NthNewline(text, k) - 1))]

NonEmpty(segment) == segment # <<>>

\* What follows the last newline of a text.
UnterminatedTail(text) ==
  IF Newlines(text) = {} THEN text
  ELSE SubSeq(text, NthNewline(text, Cardinality(Newlines(text))) + 1, Len(text))

\* C29 as stated: for any buffer and chunk, the lines returned are, in order,
\* exactly the newline-terminated segments that are non-empty after trimming;
\* the unterminated tail is the remaining buffer, unless it is longer than
\* the maximum line size, and then the remaining buffer is empty.
C29_TailKeptWithinLineSize ==
  \A h \in Handles : \A chunk \in SpacedChunks :
    info[h].state = "active" =>
      LET text == info[h].buffer \o chunk
          r == processBuffer(info[h].buffer, chunk)
          tail == UnterminatedTail(text)
      IN /\ r.lines = SelectSeq(Segments(text), NonEmpty)
         /\ r.remainingBuffer = IF Len(tail) > limits.maxLineSize THEN <<>> ELSE tail

\* C29 (amended): for any buffer and chunk, the lines returned are, in order,
\* exactly the newline-terminated segments that are non-empty after trimming;
\* the unterminated tail is the remaining buffer, unless it is longer than
\* the maximum line size or longer than the maximum buffer size, and then
\* the remaining buffer is empty.
C29_LinesAndTail ==
  \A h \in Handles : \A chunk \in SpacedChunks :
    info[h].state = "active" =>
      LET text == info[h].buffer \o chunk
          r == processBuffer(info[h].buffer, chunk)
          tail == UnterminatedTail(text)
      IN /\ r.lines = SelectSeq(Segments(text), NonEmpty)
         /\ r.remainingBuffer =
              IF Len(tail) > limits.maxLineSize \/ Len(tail) > limits.maxBufferSize
              THEN <<>> ELSE tail

\* C29 witness: a chunk was just handled whose record was forwarded (its
\* onStats promise is yet to settle) and whose tail, with a blank in it and
\* as long as the line limit allows, is the stream's buffer.
C29_Witness ==
  \E h \in Handles :
    /\ info[h].state = "active"
    /\ Len(info[h].buffer) = limits.maxLineSize
    /\ \E i \in 1..Len(info[h].buffer) : info[h].buffer[i] = SP
    /\ microtasks # <<>>


(***************************************************************************)
(* Properties of the events manager                                        *)
(***************************************************************************)
\* C30: whatever events were delivered before, malformed ones and start
\* events whose inspection or callback failed included, and whether or not a
\* stream is watched for the id, the stop callback has been called for each
\* container id exactly as often as a well-formed stop, die or kill event
\* for that id was delivered.
C30_StopCalledOncePerEvent ==
  \A c \in Containers : stopCalls[c] = stopEvents[c]

\* C30 witness: a malformed payload was skipped, a start event failed, no
\* stats stream was ever opened, and the stop callback was called for a
\* stop event.
C30_Witness ==
  /\ skipped
  /\ startFailed
  /\ nextHandle = 1
  /\ \E c \in Containers : stopEvents[c] >= 1 /\ stopCalls[c] >= 1


(***************************************************************************)
(* Properties of the parser and of the metrics handler                     *)
(***************************************************************************)
\* C31: a ParsedStats handed to the metrics handler yields exactly one
\* point; the point's fields have the keys of the ParsedStats other than
\* timestamp, each with the value the ParsedStats has for it, and the
\* point's timestamp is the snapshot's; a point that passes validation is
\* queued to the batcher exactly once.
C31_PointCarriesParsedStats ==
  handled.stage = "handled" =>
    /\ Len(handled.points) = 1
    /\ DOMAIN handled.points[1].fields = DOMAIN parsedStats \ {"timestamp"}
    /\ \A key \in DOMAIN parsedStats \ {"timestamp"} :
         Prop(handled.points[1].fields, key) = parsedStats[key]
    /\ handled.points[1].timestamp = parsedStats.timestamp
    /\ validatePoints(handled.points) => handled.adds = 1 /\ ~handled.threw


\* The cpu_percent of the ParsedStats, under whichever name it has.
CpuPercentOf(stats) ==
  IF "cpuPercent" \in DOMAIN stats THEN stats.cpuPercent ELSE stats.cpu_percent

\* C32: for a valid sample cpu_percent is exactly 0 when the previous
\* sample's total_usage is 0, whatever the current values are; otherwise,
\* when both deltas are positive, it is (cpuDelta / systemDelta) *
\* online_cpus * 100, a sample without online_cpus counting as one CPU; for
\* the totals 200/100, the system totals 3000/2000 and online_cpus = 2 it is
\* 20.  A ParsedStats that has the field has this value.
C32_CpuPercent ==
  validateStats(rawStats) =>
    LET percent == calculateCpuPercent(rawStats)
        cpuDelta == rawStats.total - rawStats.pretotal
        systemDelta == rawStats.system - rawStats.presystem
        online_cpus == IF rawStats.online = Undefined THEN 1 ELSE rawStats.online
    IN /\ rawStats.pretotal = 0 => percent = 0
       /\ rawStats.pretotal # 0 /\ cpuDelta > 0 /\ systemDelta > 0 =>
            percent * systemDelta = cpuDelta * online_cpus * 100
       /\ ( /\ rawStats.total = 200 /\ rawStats.pretotal = 100
            /\ rawStats.system = 3000 /\ rawStats.presystem = 2000
            /\ rawStats.online = 2 ) => percent = 20
       /\ ( /\ handled.stage \in {"parsed", "handled"}
            /\ {"cpuPercent", "cpu_percent"} \cap DOMAIN parsedStats # {} ) =>
            CpuPercentOf(parsedStats) = percent

\* C32 witness: the sample with the totals 200/100, 3000/2000 and two CPUs
\* was parsed, and the ParsedStats has a cpu_percent of 20.
C32_Witness ==
  /\ handled.stage = "parsed"
  /\ rawStats.total = 200 /\ rawStats.pretotal = 100
  /\ rawStats.system = 3000 /\ rawStats.presystem = 2000
  /\ rawStats.online = 2
  /\ "cpu_percent" \in DOMAIN parsedStats
  /\ parsedStats.cpu_percent = 20


\* The field set of a ParsedStats: its keys other than timestamp.
FieldSet(stats) == DOMAIN stats \ {"timestamp"}

EssentialSelected == statsFields = ESSENTIAL_FIELDS

StoppedAfterStart(c) ==
  /\ Len(lifecycle[c]) >= 2
  /\ lifecycle[c][Len(lifecycle[c])] = "stop"
  /\ \E i \in 1..Len(lifecycle[c]) : lifecycle[c][i] = "start"
  /\ pendingInfo[c] = 0
  /\ pendingStats[c] = 0

\* C34: if a stop, die or kill event for a container was received after a
\* start event for it and no later start followed, then once both handlers
\* have completed, however their steps interleaved, the live map holds no
\* stream for that container.
C34_NoStreamAfterStop ==
  \A c \in Containers : StoppedAfterStart(c) => streams[c] = NoHandle


\* Handle h has listeners, was removed from the live map (or replaced), and
\* another handle is now registered for its container id.
Superseded(h) ==
  /\ handle[h].wired
  /\ streams[handle[h].cid] # NoHandle
  /\ streams[handle[h].cid] # h

\* What the listeners of h would leave of the entry registered for id: the
\* 'end' and 'error' listeners call removeStream(id), the 'data' listener
\* runs on streams.get(id).
KeptBy(m, id) ==
  /\ m.streams[id] = streams[id]
  /\ m.info[streams[id]] = info[streams[id]]
  /\ m.handle[streams[id]] = handle[streams[id]]

\* C35: only the handle registered for a container id can affect that id's
\* StreamInfo: a data, end or error event emitted by a handle that was
\* removed or replaced changes neither the buffer nor the counter of the
\* StreamInfo now registered for the id, and does not tear it down.
C35_SupersededHandleInert ==
  \A h \in Handles :
    (Quiet /\ Emits(h) /\ Superseded(h)) =>
      /\ KeptBy(removeStream(Manager, handle[h].cid), handle[h].cid)
      /\ \A chunk \in LineChunks :
           KeptBy(onData(Manager, handle[h].cid, chunk), handle[h].cid)


\* C36: whenever removeStream has returned, the live map holds no entry in
\* state 'stopping' or 'stopped' for the id, also when destroying the handle
\* or the onStreamEnd callback threw, so that a later watch of the container
\* can register a new stream.
C36_NoEntryLeftStopping ==
  \A c \in Containers :
    streams[c] # NoHandle => info[streams[c]].state \notin {"stopping", "stopped"}


\* Handle h was returned by container.stats()
OpenedHandle(h) == handle[h].status # "unopened"

C38_NoDiscoveryGap ==
  \A c \in Containers :
    (c \in startup.running) ~> (streams[c] # NoHandle \/ c \notin startup.running)


\* C39: no stranded points: whenever the batcher is not shut down, no
\* handler is running and the pending batch is non-empty, a flush timer is
\* pending, so that the pending points reach a write attempt without a
\* further add().
C39_PendingBatchHasTimer ==
  (~isShutdown /\ batch # <<>>) => flushTimeout # NoTimer

\* A failed flush has put its points back, with no add() since, and the
\* timer for them is pending.
C39_Witness ==
  /\ ~isShutdown
  /\ lastOutcome = "requeued"
  /\ batch # <<>>
  /\ flights = {}
  /\ flushTimeout # NoTimer


\* C40: the pending batch is bounded: after any add() has returned and at
\* every later moment the number of pending points stays below a fixed
\* bound determined by maxSize (twice maxSize is allowed here), also while
\* the sink keeps failing and failed batches are re-queued.
C40_PendingBatchBounded == Len(batch) < 2 * config.maxSize

====
